---- MODULE Spec2Model ----
(***************************************************************************)
(* Verification model of vailix: the client SDK (@vailix/mask) and the     *)
(* server (@vailix/drop).                                                  *)
(*                                                                         *)
(* The module holds these state machines over groups of variables:         *)
(*   SpecSDK      the VailixSDK singleton (create / doCreate / destroy)    *)
(*   SpecStore    StorageService (canScan / logScan / cleanupOldScans) and *)
(*                the SDK scan path scanQR, calls overlapping              *)
(*   SpecLedger   the same with one scan call at a time                    *)
(*   SpecScan     the same with QR payloads of every origin                *)
(*   SpecLogScan  scan calls one at a time without cleanupOldScans         *)
(*   SpecServer   the drop server: preHandler auth hook, POST /v1/report,  *)
(*                GET /v1/download                                         *)
(*   SpecIngest   the drop server under authorised reports only            *)
(*   SpecMatcher  MatcherService.fetchAndMatch against the drop server,    *)
(*                calls overlapping                                        *)
(*   SpecPass     the same with one fetchAndMatch call at a time           *)
(*   SpecLifecycle  create() and destroy() calls, destroy() repeated       *)
(*   SpecBoot     identity.initialize and initializeDatabase over the      *)
(*                process runs of an installation                          *)
(*   SpecCodec    serializeKeys, a truncating network, and                 *)
(*                _parseBinaryResponse                                     *)
(*   SpecMetadata fetchAndMatch against reports with every kind of         *)
(*                metadata                                                 *)
(*   SpecPaging   one fetchAndMatch call at a time, no failure, the       *)
(*                requests answered and the promises resolved (fair)       *)
(*   SpecUpload   report(): _encrypt of the metadata and the report        *)
(*                schema of the server                                     *)
(*   SpecBle      BleService: discovery, incoming pair requests,           *)
(*                pairWithUser, unpairUser, over StorageService            *)
(***************************************************************************)
EXTENDS Integers, Sequences, FiniteSets, TLC

VARIABLES
    \* ---- VailixSDK singleton (index.ts) ----
    instance,       \* VailixSDK.instance: 0 = null, else the id of the engine
    initPromise,    \* VailixSDK.initPromise: 0 = null, else index into tasks
    tasks,          \* the promises made by the IIFE of create(), in order
    callers,        \* the create() calls of each caller and what they got
    handed,         \* ids of the engines create() calls have resolved to
    initDbCalls,    \* number of initializeDatabase invocations
    destroyCalls,   \* number of destroy() calls
    bleDestroyed,   \* engines whose ble.destroy() ran
    \* ---- StorageService and the scan path (storage.ts, index.ts) ----
    now,            \* Date.now() of the device
    rescanIntervalMs, \* StorageService.rescanIntervalMs (config)
    lastScanByRpi,  \* the rescan ledger: Map entries in insertion order
    scanHistory,    \* AsyncStorage[SCAN_HISTORY_KEY]: the durable mirror
    scannedEvents,  \* rows of table scanned_events, in insertion order
    scans,          \* the scan call each scanner has in flight
    scanResult,     \* what the latest step of a scan call returned: "true",
                    \* "false", "error" (false, after emitting on 'error'),
                    \* or "none" when that step did not return
    cleanup,        \* the cleanupOldScans call, if one is running
    stamped,        \* per RPI: clock at which its latest logScan set the ledger;
                    \* 0 if none, or if the overflow pruning dropped it since
    logged,         \* RPIs whose latest finished logScan returned normally
    \* ---- the drop server (drop/src/db.ts, routes) ----
    keys,           \* the documents of the Key collection
    serverNow,      \* Date.now() of the server
    attest,         \* whether options.attestVerifier is configured
    reqs,           \* per request slot: the operations of the bulkWrite of a
                    \* report being handled that are still to apply
    reply,          \* the reply the server sent in the latest step (NoReply
                    \* when it sent none)
    firstInsert,    \* per RPI: metadata and createdAt of the first upsert that
                    \* named it and whether a later one named it again (empty
                    \* before the first)
    \* ---- MatcherService (matcher.ts) ----
    lastSyncItem,   \* AsyncStorage[LAST_SYNC_KEY]; "" when absent
    appSecret,      \* the appSecret the matcher was built with
    passes,         \* the fetchAndMatch calls: position, locals, outcome
    \* ---- identity and encrypted database (identity.ts, db.ts) ----
    keyStore,       \* what KeyStorage holds under MASTER_KEY_STORE
    masterKey,      \* IdentityManager.masterKey (in memory)
    bootKey,        \* the local `key` of an initialize() call in progress
    dbFile,         \* the file vailix.db: whether it exists, the key it is
                    \* encrypted under, how many rows it holds
    openHandles,    \* connections to vailix.db that are open
    bootPc,         \* where the create() of this process run stands
    boots,          \* process runs started so far
    dbLog,          \* this run's tryOpenEncryptedDatabase attempts: where each
                    \* ended, the file key it met, and for a failed first
                    \* attempt the connections open when the file was deleted
    firstStored,    \* the first master secret KeyStorage ever held
    keyWrites,      \* setKey calls that completed
    \* ---- the binary page (routes serializeKeys, matcher.ts) ----
    pageDocs,       \* the documents handed to serializeKeys
    wire,           \* what serializeKeys allocated and wrote
    received,       \* the bytes that reached the client
    parsedKeys,     \* the result of _parseBinaryResponse
    codecPc,        \* how far the page has come
    \* ---- report() and its metadata (index.ts, routes) ----
    upload,         \* a report() call: its metadata, the wire string of
                    \* _encrypt, the server's status, the result
    outbox,         \* the last request the client put on the wire
    batch,          \* the configured engine and the size of its report() batch
    \* ---- BleService (ble.ts) ----
    autoAccept,     \* BleService.autoAccept (config.autoAcceptIncomingPairs)
    isScanning,     \* BleService.isScanning: discovery runs, and with it the
                    \* cleanup interval; myRpi and myMetadataKey are set
    nearbyUsers,    \* BleService.nearbyUsers, per device id
    pendingRequests, \* BleService.pendingRequests, per device id
    bleCall,        \* the pairing call that awaits its logScan, if any
    deviceScans,    \* manager.startDeviceScan calls since the last
                    \* manager.stopDeviceScan
    startCalls      \* startDiscovery() calls since the last stopDiscovery()

sdkVars == <<instance, initPromise, tasks, callers, handed, initDbCalls,
             destroyCalls, bleDestroyed>>

storeVars == <<now, rescanIntervalMs, lastScanByRpi, scanHistory, scannedEvents,
               scans, scanResult, cleanup, stamped, logged>>

serverVars == <<keys, serverNow, attest, reqs, reply, firstInsert>>

matcherVars == <<lastSyncItem, appSecret, passes>>

bootVars == <<keyStore, masterKey, bootKey, dbFile, openHandles, bootPc, boots,
              dbLog, firstStored, keyWrites>>

codecVars == <<pageDocs, wire, received, parsedKeys, codecPc>>

uploadVars == <<upload, outbox, batch>>

bleVars == <<autoAccept, isScanning, nearbyUsers, pendingRequests, bleCall,
             deviceScans, startCalls>>

vars == <<sdkVars, storeVars, serverVars, matcherVars, bootVars, codecVars, uploadVars, bleVars>>

\* What the actions of one state machine leave alone.
nonSdkVars == <<storeVars, serverVars, matcherVars, bootVars, codecVars, uploadVars, bleVars>>
nonStoreVars == <<sdkVars, serverVars, matcherVars, bootVars, codecVars, uploadVars, bleVars>>
nonServerVars == <<sdkVars, storeVars, matcherVars, bootVars, codecVars, uploadVars, bleVars>>
nonBootVars == <<sdkVars, storeVars, serverVars, matcherVars, codecVars, uploadVars, bleVars>>
nonCodecVars == <<sdkVars, storeVars, serverVars, matcherVars, bootVars, uploadVars, bleVars>>
nonUploadVars == <<sdkVars, storeVars, serverVars, matcherVars, bootVars, codecVars, bleVars>>
nonBleVars == <<sdkVars, storeVars, serverVars, matcherVars, bootVars, codecVars, uploadVars>>
nonStoreBleVars == <<sdkVars, serverVars, matcherVars, bootVars, codecVars, uploadVars>>

(***************************************************************************)
(* Bounds                                                                  *)
(***************************************************************************)
NumCallers == 3
MaxTasks == 2
MaxDestroys == 2

Callers == 1..NumCallers

Max(S) == CHOOSE x \in S : \A y \in S : y <= x
Min(S) == CHOOSE x \in S : \A y \in S : x <= y

(***************************************************************************)
(* StorageService (storage.ts) and the scan path of the SDK (index.ts)     *)
(***************************************************************************)
NumRpis == 2                 \* peer RPIs that can be scanned
NumScanners == 2             \* scan calls that can be in flight together
MaxTime == 3                 \* the clock stops here
MaxRows == 2                 \* cap on rows of scanned_events

\* Program constants, scaled to the clock of the model (1 tick).
MAX_SCAN_HISTORY_SIZE == 1   \* 10000 in the source
RETENTION_MS == 1            \* 14 * 24 * 60 * 60 * 1000 in the source
RpiDurationMs == 2           \* config.rpiDurationMs, default 15 * 60 * 1000
RescanMs == 2                \* a config.rescanIntervalMs > 0 (<= rpiDurationMs)

RpiNames == <<"a1", "b2", "c3", "d4", "e5">>
Rpis == {RpiNames[i] : i \in 1..NumRpis}
Scanners == 1..NumScanners
Times == 0..MaxTime

\* Map.get(rpi): the stored time, 0 standing for undefined.
LedgerGet(ledger, rpi) ==
    IF \E i \in 1..Len(ledger) : ledger[i].rpi = rpi
      THEN ledger[CHOOSE i \in 1..Len(ledger) : ledger[i].rpi = rpi].last
      ELSE 0

\* Map.set(rpi, t): an existing key keeps its place, a new one goes last.
LedgerSet(ledger, rpi, t) ==
    IF \E i \in 1..Len(ledger) : ledger[i].rpi = rpi
      THEN [i \in 1..Len(ledger) |->
              IF ledger[i].rpi = rpi THEN [rpi |-> rpi, last |-> t] ELSE ledger[i]]
      ELSE Append(ledger, [rpi |-> rpi, last |-> t])

LedgerKeys(ledger) == {ledger[i].rpi : i \in 1..Len(ledger)}

RemoveAt(seq, k) == [i \in 1..(Len(seq) - 1) |-> IF i < k THEN seq[i] ELSE seq[i + 1]]

\* Mutant: the sort is descending, the newest entry goes first.
OldestIndex_Newest(ledger) ==
    CHOOSE i \in 1..Len(ledger) :
        \A j \in 1..Len(ledger) :
            \/ ledger[i].last > ledger[j].last
            \/ (ledger[i].last = ledger[j].last /\ i <= j)

\* Index of the entry a stable ascending sort by time puts first.
OldestIndex(ledger) ==
    CHOOSE i \in 1..Len(ledger) :
        \A j \in 1..Len(ledger) :
            \/ ledger[i].last < ledger[j].last
            \/ (ledger[i].last = ledger[j].last /\ i <= j)

\* logScan's overflow pruning: drop entries.slice(0, size - MAX) of the
\* entries sorted by time ascending.
RECURSIVE PruneOverflow(_)
PruneOverflow(ledger) ==
    IF Len(ledger) > MAX_SCAN_HISTORY_SIZE
      THEN PruneOverflow(RemoveAt(ledger, OldestIndex(ledger)))
      ELSE ledger

\* Mutant: the comparison is strict.
canScanAt_Strict(ledger, interval, rpi, t) ==
    \/ interval = 0
    \/ LedgerGet(ledger, rpi) = 0
    \/ t - LedgerGet(ledger, rpi) > interval

\* canScan(rpi), with the ledger, the interval and Date.now() it reads.
canScanAt(ledger, interval, rpi, t) ==
    \/ interval = 0
    \/ LedgerGet(ledger, rpi) = 0
    \/ t - LedgerGet(ledger, rpi) >= interval

canScan(rpi) == canScanAt(lastScanByRpi, rescanIntervalMs, rpi, now)

\* Mutant: an entry as old as the interval is pruned too.
PruneOld_Inclusive(ledger, interval, t) ==
    SelectSeq(ledger, LAMBDA e : ~(t - e.last >= interval))

\* cleanupOldScans' pruning of the ledger at time t.
PruneOld(ledger, interval, t) ==
    SelectSeq(ledger, LAMBDA e : ~(t - e.last > interval))

\* Decimal numerals of the clock values, as they stand in a QR payload.
Numerals == <<"0", "1", "2", "3", "4", "5", "6", "7", "8", "9">>

\* Date.now() as formatQR writes it.
ToNumeral(n) == Numerals[n + 1]

\* isNaN(parseInt(str, 10)) for the payloads considered.
ParsesToNaN(str) == ~\E i \in 1..Len(Numerals) : Numerals[i] = str

\* parseInt(str, 10) of a numeral.
ParseInt(str) == (CHOOSE i \in 1..Len(Numerals) : Numerals[i] = str) - 1

NoParse == [ok |-> FALSE, rpi |-> "", timestamp |-> 0, metadataKey |-> ""]

\* parseQR(data), data given as data.split(':'); ok = FALSE stands for null.
parseQR(p) ==
    IF Len(p) # 5 THEN NoParse
    ELSE IF p[1] # "proto" \/ p[2] # "v1" THEN NoParse
    ELSE IF ParsesToNaN(p[4]) THEN NoParse
    ELSE [ok |-> TRUE, rpi |-> p[3], timestamp |-> ParseInt(p[4]), metadataKey |-> p[5]]

\* formatQR(rpi, metadataKey) at time t, as its colon-separated fields.
formatQR(rpi, metadataKey, t) == <<"proto", "v1", rpi, ToNumeral(t), metadataKey>>

\* QR payloads offered to scanQR at time t: fresh and expired codes of the
\* peers, and malformed ones.
QRInputs(t) ==
    {formatQR(r, "c0de", m) : r \in Rpis, m \in {t, t - RpiDurationMs - 1} \cap Times}
      \cup {<<"proto", "v2", "a1", ToNumeral(t), "c0de">>,
            <<"proto", "v1", "a1", "soon", "c0de">>,
            <<"proto", "v1", "a1", ToNumeral(t)>>}

\* Hex strings in this model: an RPI has two digits (32 in the source), a
\* metadata key four (64 in the source).
RPI_HEX == 2
KEY_HEX == 4

\* The number of characters of a string of hex digits, -1 for a string
\* that is not all hex digits.
HexLength(str) ==
    CASE str \in {"a1", "b2", "c3", "d4", "e5", "A1"} -> 2
      [] str \in {"c0de", "beef"} -> 4
      [] OTHER -> -1

\* Payloads in the QR format that no getQRCode() produced: an RPI that is
\* no hex string, a metadata key that is none, a key that is too short.
ForgedQRs(t) ==
    {formatQR("zz", "c0de", t), formatQR("a1", "k!", t), formatQR("a1", "a1", t)}

IdleScan == [pc |-> "idle", rpi |-> "", key |-> "", ts |-> 0]
IdleCleanup == [pc |-> "idle", cutoff |-> 0]

StoreInit ==
    /\ now = 1
    /\ rescanIntervalMs \in {0, RescanMs}
    /\ lastScanByRpi = <<>>
    /\ scanHistory = <<>>
    /\ scannedEvents = <<>>
    /\ scans = [s \in Scanners |-> IdleScan]
    /\ scanResult = "none"
    /\ cleanup = IdleCleanup
    /\ stamped = [r \in Rpis |-> 0]
    /\ logged = {}

\* The clock advances.
Tick ==
    /\ now < MaxTime
    /\ now' = now + 1
    /\ UNCHANGED <<rescanIntervalMs, lastScanByRpi, scanHistory, scannedEvents, scans, scanResult,
                   cleanup, stamped, logged, nonStoreVars>>

\* scanQR(qrData) up to its first await: parse, expiry check, canScan, and
\* logScan up to the await of db.insert. (The BLE and NFC pairing paths run
\* the same canScan-then-logScan sequence.)
ScanQR(s, qr) ==
    /\ scans[s].pc = "idle"
    /\ LET parsed == parseQR(qr) IN
         IF \/ ~parsed.ok
            \/ now - parsed.timestamp > RpiDurationMs
            \/ ~canScan(parsed.rpi)
           THEN /\ scanResult' = "false"
                /\ UNCHANGED scans
           ELSE /\ Len(scannedEvents) < MaxRows
                /\ scans' = [scans EXCEPT ![s] =
                      [pc |-> "inserting", rpi |-> parsed.rpi,
                       key |-> parsed.metadataKey, ts |-> now]]
                /\ scanResult' = "none"
    /\ UNCHANGED <<now, rescanIntervalMs, lastScanByRpi, scanHistory, scannedEvents,
                   cleanup, stamped, logged, nonStoreVars>>

\* db.insert rejects: logScan throws, scanQR's catch emits the error and
\* returns false.
InsertFail(s) ==
    /\ scans[s].pc = "inserting"
    /\ scans' = [scans EXCEPT ![s] = IdleScan]
    /\ scanResult' = "error"
    /\ logged' = logged \ {scans[s].rpi}
    /\ UNCHANGED <<now, rescanIntervalMs, lastScanByRpi, scanHistory, scannedEvents,
                   cleanup, stamped, nonStoreVars>>

\* db.insert(...).values(...) resolves: the row is stored and logScan resumes;
\* it stamps the ledger with Date.now(), prunes on overflow, and calls
\* AsyncStorage.setItem with the serialized entries. AsyncStorage runs its
\* writes in the order of the calls, so the write is taken to land (ok) or
\* to be lost (~ok) at the call; its promise settles later.
LogScanInserted(s, ok) ==
    /\ scans[s].pc = "inserting"
    /\ LET r == scans[s].rpi
           set == LedgerSet(lastScanByRpi, r, now)
           kept == PruneOverflow(set)
           gone == LedgerKeys(set) \ LedgerKeys(kept)
       IN /\ scannedEvents' = Append(scannedEvents,
                [rpi |-> r, metadataKey |-> scans[s].key, timestamp |-> scans[s].ts])
          /\ lastScanByRpi' = kept
          /\ scanHistory' = IF ok THEN kept ELSE scanHistory
          /\ scans' = [scans EXCEPT ![s] =
                [pc |-> IF ok THEN "persisting" ELSE "persistFailing", rpi |-> r,
                 key |-> "", ts |-> 0]]
          /\ scanResult' = "none"
          /\ stamped' = [x \in Rpis |-> IF x \in gone THEN 0
                                        ELSE IF x = r THEN now ELSE stamped[x]]
    /\ UNCHANGED <<now, rescanIntervalMs, cleanup, logged, nonStoreVars>>

\* The promise of AsyncStorage.setItem resolves: logScan returns and scanQR
\* returns true.
PersistDone(s) ==
    /\ scans[s].pc = "persisting"
    /\ logged' = logged \cup {scans[s].rpi}
    /\ scans' = [scans EXCEPT ![s] = IdleScan]
    /\ scanResult' = "true"
    /\ UNCHANGED <<now, rescanIntervalMs, lastScanByRpi, scanHistory, scannedEvents,
                   cleanup, stamped, nonStoreVars>>

\* The promise of AsyncStorage.setItem rejects: logScan throws, scanQR's
\* catch emits the error and returns false.
PersistFail(s) ==
    /\ scans[s].pc = "persistFailing"
    /\ logged' = logged \ {scans[s].rpi}
    /\ scans' = [scans EXCEPT ![s] = IdleScan]
    /\ scanResult' = "error"
    /\ UNCHANGED <<now, rescanIntervalMs, lastScanByRpi, scanHistory, scannedEvents,
                   cleanup, stamped, nonStoreVars>>

\* cleanupOldScans() up to the await of db.delete.
CleanupCall ==
    /\ cleanup.pc = "idle"
    /\ cleanup' = [pc |-> "deleting", cutoff |-> now - RETENTION_MS]
    /\ UNCHANGED <<now, rescanIntervalMs, lastScanByRpi, scanHistory, scannedEvents,
                   scans, scanResult, stamped, logged, nonStoreVars>>

\* db.delete(...).where(lt(timestamp, cutoff)) resolves: the rows are gone
\* and cleanupOldScans resumes; when rescanIntervalMs > 0 it prunes the
\* ledger and calls AsyncStorage.setItem (the write lands or is lost).
CleanupDeleted(ok) ==
    /\ cleanup.pc = "deleting"
    /\ scannedEvents' = SelectSeq(scannedEvents, LAMBDA row : ~(row.timestamp < cleanup.cutoff))
    /\ IF rescanIntervalMs > 0
         THEN LET kept == PruneOld(lastScanByRpi, rescanIntervalMs, now) IN
                /\ lastScanByRpi' = kept
                /\ scanHistory' = IF ok THEN kept ELSE scanHistory
                /\ cleanup' = [pc |-> IF ok THEN "persisting" ELSE "persistFailing",
                               cutoff |-> 0]
         ELSE /\ ok
              /\ cleanup' = IdleCleanup
              /\ UNCHANGED <<lastScanByRpi, scanHistory>>
    /\ UNCHANGED <<now, rescanIntervalMs, scans, scanResult,
                   stamped, logged, nonStoreVars>>

\* The promise of the mirror write settles and cleanupOldScans returns
\* (resolved or rejected).
CleanupPersist ==
    /\ cleanup.pc \in {"persisting", "persistFailing"}
    /\ cleanup' = IdleCleanup
    /\ UNCHANGED <<now, rescanIntervalMs, lastScanByRpi, scanHistory, scannedEvents,
                   scans, scanResult, stamped, logged, nonStoreVars>>

\* db.delete rejects: cleanupOldScans throws.
CleanupFail ==
    /\ cleanup.pc = "deleting"
    /\ cleanup' = IdleCleanup
    /\ UNCHANGED <<now, rescanIntervalMs, lastScanByRpi, scanHistory, scannedEvents,
                   scans, scanResult, stamped, logged, nonStoreVars>>

StoreNext ==
    \/ Tick
    \/ \E s \in Scanners : \E qr \in QRInputs(now) : ScanQR(s, qr)
    \/ \E s \in Scanners : InsertFail(s)
    \/ \E s \in Scanners, ok \in BOOLEAN : LogScanInserted(s, ok)
    \/ \E s \in Scanners : PersistDone(s)
    \/ \E s \in Scanners : PersistFail(s)
    \/ CleanupCall
    \/ \E ok \in BOOLEAN : CleanupDeleted(ok)
    \/ CleanupPersist
    \/ CleanupFail


\* The same with one scan call at a time.
LedgerNext ==
    \/ Tick
    \/ \E qr \in QRInputs(now) : ScanQR(1, qr)
    \/ InsertFail(1)
    \/ \E ok \in BOOLEAN : LogScanInserted(1, ok)
    \/ PersistDone(1)
    \/ PersistFail(1)
    \/ CleanupCall
    \/ \E ok \in BOOLEAN : CleanupDeleted(ok)
    \/ CleanupPersist
    \/ CleanupFail

\* A device whose rescan interval is shorter than the time the clock runs,
\* so that ledger entries do grow older than the interval.
CleanupInit ==
    /\ now = 1
    /\ rescanIntervalMs \in {0, RescanMs - 1}
    /\ lastScanByRpi = <<>>
    /\ scanHistory = <<>>
    /\ scannedEvents = <<>>
    /\ scans = [s \in Scanners |-> IdleScan]
    /\ scanResult = "none"
    /\ cleanup = IdleCleanup
    /\ stamped = [r \in Rpis |-> 0]
    /\ logged = {}

\* Scans of fresh codes that are stored, one at a time, and cleanupOldScans.
CleanupNext ==
    \/ Tick
    \/ \E r \in Rpis : ScanQR(1, formatQR(r, "c0de", now))
    \/ LogScanInserted(1, TRUE)
    \/ PersistDone(1)
    \/ CleanupCall
    \/ \E ok \in BOOLEAN : CleanupDeleted(ok)
    \/ CleanupPersist
    \/ CleanupFail

\* One scan call at a time and no cleanupOldScans: the ledger is changed
\* by logScan alone.
LogScanNext ==
    \/ Tick
    \/ \E qr \in QRInputs(now) : ScanQR(1, qr)
    \/ InsertFail(1)
    \/ \E ok \in BOOLEAN : LogScanInserted(1, ok)
    \/ PersistDone(1)
    \/ PersistFail(1)

\* One scan call at a time, of payloads of every origin.
ScanNext ==
    \/ Tick
    \/ \E qr \in QRInputs(now) \cup ForgedQRs(now) : ScanQR(1, qr)
    \/ InsertFail(1)
    \/ \E ok \in BOOLEAN : LogScanInserted(1, ok)
    \/ PersistDone(1)
    \/ PersistFail(1)
    \/ CleanupCall
    \/ \E ok \in BOOLEAN : CleanupDeleted(ok)
    \/ CleanupPersist
    \/ CleanupFail

(***************************************************************************)
(* VailixSDK singleton                                                     *)
(***************************************************************************)
\* The awaits of doCreate, in order; a task sits at the one it is awaiting.
\* "throwing": doCreate rejected at the config validation, before any await.
InitSteps == <<"identity", "database", "ledger", "cleanup">>

NextInitStep(pc) ==
    CASE pc = "identity" -> "database"
      [] pc = "database" -> "ledger"
      [] pc = "ledger"   -> "cleanup"
      [] pc = "cleanup"  -> "fulfilled"

TaskRunning(t) == t.pc \in {"identity", "database", "ledger", "cleanup", "throwing"}

\* doCreate up to its first await: validates the config, then calls
\* identity.initialize(). born records how many destroy() calls had returned
\* when the create() that runs it was called.
DoCreateStart(cfgOk) ==
    [pc |-> IF cfgOk THEN "identity" ELSE "throwing", born |-> destroyCalls]

SDKInit ==
    /\ instance = 0
    /\ initPromise = 0
    /\ tasks = <<>>
    /\ callers = [c \in Callers |-> [pc |-> "idle", p |-> 0, got |-> 0]]
    /\ handed = {}
    /\ initDbCalls = 0
    /\ destroyCalls = 0
    /\ bleDestroyed = {}

\* The slot check of create(): TRUE when this call must start the IIFE.
\* Mutant: the in-flight promise is not consulted.
StartsInit_NoPromiseCheck == instance = 0

StartsInit == instance = 0 /\ initPromise = 0

\* static async create(config)
Create(c, cfgOk) ==
    /\ callers[c].pc = "idle"
    /\ IF instance # 0
         THEN /\ callers' = [callers EXCEPT ![c] = [pc |-> "resolved", p |-> 0, got |-> instance]]
              /\ handed' = handed \cup {instance}
              /\ UNCHANGED <<initPromise, tasks>>
         ELSE IF ~StartsInit
         THEN /\ callers' = [callers EXCEPT ![c] = [pc |-> "waiting", p |-> initPromise, got |-> 0]]
              /\ UNCHANGED <<initPromise, tasks, handed>>
         ELSE /\ Len(tasks) < MaxTasks
              /\ tasks' = Append(tasks, DoCreateStart(cfgOk))
              /\ initPromise' = Len(tasks) + 1
              /\ callers' = [callers EXCEPT ![c] = [pc |-> "waiting", p |-> Len(tasks) + 1, got |-> 0]]
              /\ UNCHANGED handed
    /\ UNCHANGED <<instance, initDbCalls, destroyCalls, bleDestroyed, nonSdkVars>>

\* An await of doCreate completes and doCreate runs to its next await.
InitStep(p) ==
    /\ p \in 1..Len(tasks)
    /\ tasks[p].pc \in {"identity", "database", "ledger"}
    /\ tasks' = [tasks EXCEPT ![p].pc = NextInitStep(@)]
    /\ initDbCalls' = IF tasks[p].pc = "identity" THEN initDbCalls + 1 ELSE initDbCalls
    /\ UNCHANGED <<instance, initPromise, callers, handed, destroyCalls, bleDestroyed, nonSdkVars>>

\* cleanupOldScans resolved: doCreate returns the new engine, the IIFE sets
\* VailixSDK.instance and fulfils its promise.
InitDone(p) ==
    /\ p \in 1..Len(tasks)
    /\ tasks[p].pc = "cleanup"
    /\ tasks' = [tasks EXCEPT ![p].pc = "fulfilled"]
    /\ instance' = p
    /\ UNCHANGED <<initPromise, callers, handed, initDbCalls, destroyCalls, bleDestroyed, nonSdkVars>>

\* Mutant: the catch of the IIFE rethrows without clearing the slot.
InitFail_KeepSlot(p) ==
    /\ p \in 1..Len(tasks)
    /\ TaskRunning(tasks[p])
    /\ tasks' = [tasks EXCEPT ![p].pc = "rejected"]
    /\ UNCHANGED <<instance, initPromise, callers, handed, initDbCalls, destroyCalls, bleDestroyed, nonSdkVars>>

\* doCreate rejects (invalid config, or the awaited step failed): the catch
\* of the IIFE clears VailixSDK.initPromise and rethrows.
InitFail(p) ==
    /\ p \in 1..Len(tasks)
    /\ TaskRunning(tasks[p])
    /\ tasks' = [tasks EXCEPT ![p].pc = "rejected"]
    /\ initPromise' = 0
    /\ UNCHANGED <<instance, callers, handed, initDbCalls, destroyCalls, bleDestroyed, nonSdkVars>>

\* The promise a create() call returned settles for its caller.
Settle(c) ==
    /\ callers[c].pc = "waiting"
    /\ LET t == tasks[callers[c].p] IN
         \/ /\ t.pc = "fulfilled"
            /\ callers' = [callers EXCEPT ![c].pc = "resolved", ![c].got = callers[c].p]
            /\ handed' = handed \cup {callers[c].p}
         \/ /\ t.pc = "rejected"
            /\ callers' = [callers EXCEPT ![c].pc = "rejected"]
            /\ UNCHANGED handed
    /\ UNCHANGED <<instance, initPromise, tasks, initDbCalls, destroyCalls, bleDestroyed, nonSdkVars>>

\* The caller is done with the result and may call create() again.
Again(c) ==
    /\ callers[c].pc \in {"resolved", "rejected"}
    /\ callers' = [callers EXCEPT ![c] = [pc |-> "idle", p |-> 0, got |-> 0]]
    /\ UNCHANGED <<instance, initPromise, tasks, handed, initDbCalls, destroyCalls, bleDestroyed, nonSdkVars>>

\* Mutant: destroy() clears the statics without touching the BLE service.
Destroy_NoRelease ==
    /\ destroyCalls < MaxDestroys
    /\ destroyCalls' = destroyCalls + 1
    /\ instance' = 0
    /\ initPromise' = 0
    /\ UNCHANGED <<bleDestroyed, tasks, callers, handed, initDbCalls, nonSdkVars>>

\* static async destroy()
Destroy ==
    /\ destroyCalls < MaxDestroys
    /\ destroyCalls' = destroyCalls + 1
    /\ bleDestroyed' = IF instance # 0 THEN bleDestroyed \cup {instance} ELSE bleDestroyed
    /\ instance' = 0
    /\ initPromise' = 0
    /\ UNCHANGED <<tasks, callers, handed, initDbCalls, nonSdkVars>>

\* static isInitialized()
isInitialized == instance # 0

\* Overlapping create() calls of every caller, and at most one destroy().
SDKNext ==
    \/ \E c \in Callers, cfgOk \in BOOLEAN : Create(c, cfgOk)
    \/ \E p \in 1..MaxTasks : InitStep(p)
    \/ \E p \in 1..MaxTasks : InitDone(p)
    \/ \E p \in 1..MaxTasks : InitFail(p)
    \/ \E c \in Callers : Settle(c)
    \/ \E c \in Callers : Again(c)
    \/ destroyCalls = 0 /\ Destroy

\* The callers that create and destroy the engine repeatedly.
LifecycleCallers == 1..(NumCallers - 1)

\* create() calls of all callers but one, and up to MaxDestroys destroy()
\* calls at any point, an initialization in flight included.
LifecycleNext ==
    \/ \E c \in LifecycleCallers, cfgOk \in BOOLEAN : Create(c, cfgOk)
    \/ \E p \in 1..MaxTasks : InitStep(p)
    \/ \E p \in 1..MaxTasks : InitDone(p)
    \/ \E p \in 1..MaxTasks : InitFail(p)
    \/ \E c \in LifecycleCallers : Settle(c)
    \/ \E c \in LifecycleCallers : Again(c)
    \/ Destroy

(***************************************************************************)
(* Identity and the encrypted database: one create() per process run       *)
(***************************************************************************)
MaxBoots == 2           \* process runs (an installation and its restarts)

\* Strings are sequences of one-character strings. NoKey stands for null.
NoKey == <<"null">>

HexDigits ==
    {"0", "1", "2", "3", "4", "5", "6", "7", "8", "9",
     "a", "b", "c", "d", "e", "f", "A", "B", "C", "D", "E", "F"}

\* /^[0-9a-f]+$/i.test(masterKey)
IsHexKey(k) == Len(k) > 0 /\ \A i \in 1..Len(k) : k[i] \in HexDigits

\* randomUUID(): groups of hex digits joined by hyphens, the version digit 4
\* leading the third group (8-4-4-4-12 digits; here 2-1-1).
RandomUUIDs == {<<a, "f", "-", "4", "-", "a">> : a \in {"0", "9"}}

\* Master secrets an application-supplied KeyStorage holds (a synced key).
HexKeys == {<<"a", "1">>, <<"B", "2">>}

\* Mutant: initialize() generates a key whatever getKey() returned.
NeedsNewKey_Always(key) == TRUE

\* if (!key): null and the empty string are falsy.
NeedsNewKey(key) == key = NoKey \/ key = <<>>

NoFile == [exists |-> FALSE, key |-> NoKey, rows |-> 0]

\* The empty file openDatabaseSync creates when there is none.
FreshFile == [exists |-> TRUE, key |-> NoKey, rows |-> 0]

\* The environment faults of an attempt: openDatabaseSync throws, or a
\* statement creating the schema fails.
Faults == {"none", "open", "table"}

\* tryOpenEncryptedDatabase(masterKey) on the file as it is. expo: whether a
\* connection was opened (it stays open; the caller closes it). A file
\* encrypted under another key makes the first statement that reads it
\* fail: detect says whether that is SELECT 1 or CREATE TABLE.
tryOpenEncryptedDatabase(file, key, fault, detect) ==
    IF fault = "open"
      THEN [success |-> FALSE, expo |-> FALSE, at |-> "open", file |-> file]
      ELSE LET f1 == IF file.exists THEN file ELSE FreshFile IN
           IF ~IsHexKey(key)
             THEN [success |-> FALSE, expo |-> TRUE, at |-> "format", file |-> f1]
           ELSE IF f1.key # NoKey /\ f1.key # key
             THEN [success |-> FALSE, expo |-> TRUE, at |-> detect, file |-> f1]
           ELSE IF fault = "table"
             THEN [success |-> FALSE, expo |-> TRUE, at |-> "table", file |-> f1]
           ELSE [success |-> TRUE, expo |-> TRUE, at |-> "ok",
                 file |-> [exists |-> TRUE, key |-> key, rows |-> f1.rows]]

\* Mutant: the connection of a failed attempt is left open.
CloseIfOpen_Never(expo, handles) == handles

\* if (result.expo) result.expo.closeSync(), on the count of open connections.
CloseIfOpen(expo, handles) == IF expo THEN handles - 1 ELSE handles

\* Key storage starts empty, holding an empty string, or holding a key the
\* application put there; no database file yet.
BootInit ==
    /\ keyStore \in {NoKey, <<>>} \cup {CHOOSE k \in HexKeys : TRUE}
    /\ masterKey = NoKey
    /\ bootKey = NoKey
    /\ dbFile = NoFile
    /\ openHandles = 0
    /\ bootPc = "off"
    /\ boots = 0
    /\ dbLog = <<>>
    /\ firstStored = IF NeedsNewKey(keyStore) THEN NoKey ELSE keyStore
    /\ keyWrites = 0

\* The application starts and calls create(): doCreate awaits
\* identity.initialize(), which awaits keyStorage.getKey().
BootCreate ==
    /\ bootPc = "off"
    /\ boots < MaxBoots
    /\ boots' = boots + 1
    /\ bootPc' = "getKey"
    /\ dbLog' = <<>>
    /\ UNCHANGED <<keyStore, masterKey, bootKey, dbFile, openHandles, firstStored, keyWrites, nonBootVars>>

\* getKey() resolved.
GetKeyDone ==
    /\ bootPc = "getKey"
    /\ IF NeedsNewKey(keyStore)
         THEN /\ \E u \in RandomUUIDs : bootKey' = u
              /\ bootPc' = "setKey"
              /\ UNCHANGED masterKey
         ELSE /\ bootKey' = keyStore
              /\ masterKey' = keyStore
              /\ bootPc' = "database"
    /\ UNCHANGED <<keyStore, dbFile, openHandles, boots, dbLog, firstStored, keyWrites, nonBootVars>>

\* setKey(key) resolved.
SetKeyDone ==
    /\ bootPc = "setKey"
    /\ keyStore' = bootKey
    /\ masterKey' = bootKey
    /\ firstStored' = IF firstStored = NoKey THEN bootKey ELSE firstStored
    /\ keyWrites' = keyWrites + 1
    /\ bootPc' = "database"
    /\ UNCHANGED <<bootKey, dbFile, openHandles, boots, dbLog, nonBootVars>>

\* getKey() or setKey() rejected: initialize() throws, create() rejects.
KeyStorageFail ==
    /\ bootPc \in {"getKey", "setKey"}
    /\ bootPc' = "failed"
    /\ UNCHANGED <<keyStore, masterKey, bootKey, dbFile, openHandles, boots, dbLog, firstStored, keyWrites, nonBootVars>>

\* initializeDatabase(masterKey) up to the end of its first attempt, and on
\* failure through closeSync and deleteDatabaseSync. Deleting a file that
\* does not exist either does nothing or throws (delThrows).
OpenDatabase(fault, detect, delThrows) ==
    /\ bootPc = "database"
    /\ LET r == tryOpenEncryptedDatabase(dbFile, masterKey, fault, detect)
           opened == IF r.expo THEN openHandles + 1 ELSE openHandles
           closed == CloseIfOpen(r.expo, opened)
       IN  IF r.success
             THEN /\ delThrows = FALSE
                  /\ dbFile' = r.file
                  /\ openHandles' = opened
                  /\ dbLog' = Append(dbLog, [at |-> r.at, seen |-> dbFile.key, openAtDelete |-> 0])
                  /\ bootPc' = "ledger"
             ELSE /\ delThrows => ~r.file.exists
                  /\ dbFile' = NoFile
                  /\ openHandles' = closed
                  /\ dbLog' = Append(dbLog, [at |-> r.at, seen |-> dbFile.key, openAtDelete |-> closed])
                  /\ bootPc' = IF delThrows THEN "failed" ELSE "retry"
    /\ UNCHANGED <<keyStore, masterKey, bootKey, boots, firstStored, keyWrites, nonBootVars>>

\* The second attempt of initializeDatabase: on failure the connection is
\* closed and the error thrown.
RetryOpen(fault, detect) ==
    /\ bootPc = "retry"
    /\ LET r == tryOpenEncryptedDatabase(dbFile, masterKey, fault, detect)
           opened == IF r.expo THEN openHandles + 1 ELSE openHandles
       IN  /\ dbFile' = r.file
           /\ dbLog' = Append(dbLog, [at |-> r.at, seen |-> dbFile.key, openAtDelete |-> 0])
           /\ IF r.success
                THEN openHandles' = opened /\ bootPc' = "ledger"
                ELSE openHandles' = CloseIfOpen(r.expo, opened) /\ bootPc' = "failed"
    /\ UNCHANGED <<keyStore, masterKey, bootKey, boots, firstStored, keyWrites, nonBootVars>>

\* The rest of doCreate (ledger load, cleanup) completes: create() resolves.
FinishInit ==
    /\ bootPc = "ledger"
    /\ bootPc' = "ready"
    /\ UNCHANGED <<keyStore, masterKey, bootKey, dbFile, openHandles, boots, dbLog, firstStored, keyWrites, nonBootVars>>

\* A scan is stored in the open database.
StoreRow ==
    /\ bootPc = "ready"
    /\ dbFile.rows = 0
    /\ dbFile' = [dbFile EXCEPT !.rows = 1]
    /\ UNCHANGED <<keyStore, masterKey, bootKey, openHandles, bootPc, boots, dbLog, firstStored, keyWrites, nonBootVars>>

\* The process ends: memory and connections are gone, storage stays.
Restart ==
    /\ bootPc \in {"ready", "failed"}
    /\ bootPc' = "off"
    /\ masterKey' = NoKey
    /\ bootKey' = NoKey
    /\ openHandles' = 0
    /\ UNCHANGED <<keyStore, dbFile, boots, dbLog, firstStored, keyWrites, nonBootVars>>

\* While the application is not running, vailix.db is replaced by a copy
\* with data, encrypted under k (a restored backup).
RestoreBackup(k) ==
    /\ bootPc = "off"
    /\ dbFile' = [exists |-> TRUE, key |-> k, rows |-> 1]
    /\ UNCHANGED <<keyStore, masterKey, bootKey, openHandles, bootPc, boots, dbLog, firstStored, keyWrites, nonBootVars>>

BootNext ==
    \/ BootCreate
    \/ GetKeyDone
    \/ SetKeyDone
    \/ KeyStorageFail
    \/ \E fault \in Faults, detect \in {"verify", "table"}, delThrows \in BOOLEAN :
          OpenDatabase(fault, detect, delThrows)
    \/ \E fault \in Faults, detect \in {"verify", "table"} : RetryOpen(fault, detect)
    \/ FinishInit
    \/ StoreRow
    \/ Restart
    \/ \E k \in HexKeys : RestoreBackup(k)

(***************************************************************************)
(* The drop server: key collection, auth hook, routes                      *)
(***************************************************************************)
NumRequests == 2        \* requests the server handles at the same time
NumReported == 3        \* distinct RPIs the clients report
MaxServerTime == 2      \* the server clock runs from 1 to MaxServerTime,
                        \* inside the retention of every row (no TTL removal)
MaxBatch == 3           \* longest report body offered

\* Program constants, scaled down (values of the source in the comments).
PAGE_LIMIT == 2         \* .limit(20000)
MAX_ITEMS == 2          \* maxItems: 1500

Requests == 1..NumRequests
ReportedRpis == {RpiNames[i] : i \in 1..NumReported}
ServerTimes == 0..MaxServerTime

\* Stored metadata null.
Null == "null"

\* Buffer.from(hex, 'hex'), one byte per two hex digits; it reads digits of
\* either case.
HexToBuffer(hex) ==
    CASE hex = "a1" -> <<161>>
      [] hex = "A1" -> <<161>>
      [] hex = "b2" -> <<178>>
      [] hex = "c3" -> <<195>>
      [] hex = "d4" -> <<212>>
      [] hex = "e5" -> <<229>>
      [] OTHER -> <<>>

\* buffer.toString('hex'): lowercase digits.
BufferToHex(buf) ==
    IF buf = <<>> THEN ""
    ELSE CHOOSE h \in {RpiNames[i] : i \in 1..Len(RpiNames)} : HexToBuffer(h) = buf

\* Mutant: the pattern matches hex digits of either case.
RpiPatternOk_IgnoreCase(rpi) ==
    rpi = "A1" \/ \E i \in 1..Len(RpiNames) : RpiNames[i] = rpi

\* ReportSchema: pattern ^[a-f0-9]{32}$ on rpi (two digits here),
\* maxLength on encryptedMetadata, maxItems on reports.
RpiPatternOk(rpi) == \E i \in 1..Len(RpiNames) : RpiNames[i] = rpi
MetadataOk(meta) == meta # "toolong"
SchemaOk(reports) ==
    /\ Len(reports) <= MAX_ITEMS
    /\ \A i \in 1..Len(reports) :
          RpiPatternOk(reports[i].rpi) /\ MetadataOk(reports[i].encryptedMetadata)

\* UTF-8 bytes of a header string given as its characters: Buffer.from(str).
Utf8Char(ch) == IF ch = "e'" THEN <<"c3", "a9">> ELSE <<ch>>
RECURSIVE Utf8(_)
Utf8(str) == IF str = <<>> THEN <<>> ELSE Utf8Char(Head(str)) \o Utf8(Tail(str))

\* crypto.timingSafeEqual(a, b): throws a RangeError when the byte lengths
\* differ.
timingSafeEqual(a, b) ==
    IF Len(a) # Len(b) THEN "RangeError"
    ELSE IF a = b THEN "true" ELSE "false"

\* The secret test of the auth hook: isValid, or the exception it raises.
\* A header that is absent is the empty string here (both are falsy).
isValid(provided, expected) ==
    IF provided = <<>> THEN "false"
    ELSE IF Len(provided) # Len(expected) THEN "false"
    ELSE timingSafeEqual(Utf8(provided), Utf8(expected))

\* The configured secret and the x-vailix-secret headers offered: absent,
\* right, wrong, wrong and shorter, wrong with a non-ASCII character (e' is
\* U+00E9, one character, two bytes).
Secret == <<"a", "b">>
SecretHeaders == {<<>>, <<"a", "b">>, <<"a", "c">>, <<"a">>, <<"a", "e'">>}

\* options.attestVerifier(token) of the tokens offered.
AttestTokens == {"good", "bad"}
attestVerifier(token) == token = "good"

ReportRoute == [method |-> "POST", url |-> "/v1/report"]
DownloadRoute == [method |-> "GET", url |-> "/v1/download"]
HealthRoute == [method |-> "GET", url |-> "/health"]
Routes == {ReportRoute, DownloadRoute, HealthRoute}

\* The preHandler hook: 0 when the request goes on to its handler, else the
\* status of the reply (500 when the hook throws).
PreHandler(route, provided, token, verifier) ==
    IF route.url = "/health" THEN 0
    ELSE LET v == isValid(provided, Secret) IN
         IF v = "RangeError" THEN 500
         ELSE IF v = "false" THEN 401
         ELSE IF route.url = "/v1/report" /\ route.method = "POST" /\ verifier
                 /\ ~attestVerifier(token) THEN 403
         ELSE 0

\* Mutant: $set in place of $setOnInsert.
Upsert_Set(coll, item, t, id) ==
    LET buf == HexToBuffer(item.rpi)
        meta == IF item.encryptedMetadata = "" THEN Null ELSE item.encryptedMetadata
    IN IF \E k \in coll : k.rpi = buf
         THEN {IF k.rpi = buf THEN [k EXCEPT !.metadata = meta] ELSE k : k \in coll}
         ELSE coll \cup {[id |-> id, rpi |-> buf, metadata |-> meta, createdAt |-> t]}

\* One updateOne of the bulkWrite: filter {rpi}, $setOnInsert, upsert. With
\* the unique index on rpi the server applies it as one atomic step (a
\* racing insert of the same rpi is retried as an update that changes
\* nothing).
Upsert(coll, item, t, id) ==
    LET buf == HexToBuffer(item.rpi)
        meta == IF item.encryptedMetadata = "" THEN Null ELSE item.encryptedMetadata
    IN IF \E k \in coll : k.rpi = buf
         THEN coll
         ELSE coll \cup {[id |-> id, rpi |-> buf, metadata |-> meta, createdAt |-> t]}

\* .sort({ _id: 1 })
RECURSIVE SortById(_)
SortById(S) ==
    IF S = {} THEN <<>>
    ELSE LET first == CHOOSE k \in S : \A o \in S : k.id <= o.id
         IN <<first>> \o SortById(S \ {first})

\* Mutant: the cursor bound is $gte.
FindPage_Gte(coll, since, cursor) ==
    LET hits == {k \in coll : k.createdAt >= ParseInt(since)
                              /\ (cursor # 0 => k.id >= cursor)}
        sorted == SortById(hits)
    IN SubSeq(sorted, 1, Min({Len(sorted), PAGE_LIMIT}))

\* Mutant: the query takes no cursor.
FindPage_IgnoreCursor(coll, since, cursor) ==
    LET hits == {k \in coll : k.createdAt >= ParseInt(since)}
        sorted == SortById(hits)
    IN SubSeq(sorted, 1, Min({Len(sorted), PAGE_LIMIT}))

\* The query of GET /v1/download; cursor 0 stands for no cursor.
FindPage(coll, since, cursor) ==
    LET hits == {k \in coll : k.createdAt >= ParseInt(since)
                              /\ (cursor # 0 => k.id > cursor)}
        sorted == SortById(hits)
    IN SubSeq(sorted, 1, Min({Len(sorted), PAGE_LIMIT}))

\* hasMore / nextCursor; 0 stands for the empty header.
NextCursor(page) == IF Len(page) >= PAGE_LIMIT THEN page[Len(page)].id ELSE 0

\* Bodies the schema rejects in one entry, each with a well-formed entry of
\* an RPI that no other body reports: an RPI that is uppercase, not hex, not
\* of the length; metadata that is too long; too many entries.
SchemaViolations ==
    {<<[rpi |-> RpiNames[2], encryptedMetadata |-> "m1"],
       [rpi |-> bad, encryptedMetadata |-> ""]>> : bad \in {"A1", "zz", "a1b2"}}
      \cup {<<[rpi |-> RpiNames[2], encryptedMetadata |-> "m1"],
               [rpi |-> RpiNames[1], encryptedMetadata |-> "toolong"]>>,
             [i \in 1..MaxBatch |-> [rpi |-> RpiNames[2], encryptedMetadata |-> "m1"]]}

\* Report bodies offered: one RPI, the same RPI twice with different
\* metadata, two RPIs, and bodies the schema rejects (an uppercase RPI beside
\* a well-formed entry, too many entries).
Entry(rpi, meta) == [rpi |-> rpi, encryptedMetadata |-> meta]
ValidBodies ==
    {<<Entry(RpiNames[NumReported], "m1")>>,
     <<Entry(RpiNames[1], "")>>,
     <<Entry(RpiNames[1], "m1"), Entry(RpiNames[1], "")>>,
     <<Entry(RpiNames[NumReported], "m1"), Entry(RpiNames[1], "m1")>>}
InvalidBodies ==
    {<<Entry(RpiNames[1], "m1"), Entry("A1", "m1")>>,
     [i \in 1..MaxBatch |-> Entry(RpiNames[1], "m1")]}
      \cup SchemaViolations

\* The requests offered: every header and token with one valid body, the
\* invalid bodies with the right and with a wrong header, and every valid
\* body with the right header.
ReportRequests ==
    [provided : SecretHeaders, token : AttestTokens, body : {<<Entry(RpiNames[1], "m1")>>}]
      \cup [provided : {Secret, <<"a", "c">>}, token : {"good"}, body : InvalidBodies]
      \cup [provided : {Secret}, token : {"good"}, body : ValidBodies]
DownloadRequests ==
    [provided : SecretHeaders, since : {"0"}, cursor : {0}]
      \cup [provided : {Secret}, since : {"0", ToNumeral(MaxServerTime)}, cursor : {0, 1}]
HealthRequests == {<<>>, Secret}

NoReply ==
    [route |-> HealthRoute, secretOk |-> FALSE, attestOk |-> FALSE,
     status |-> 0, sent |-> 0, ran |-> FALSE]

ServerInit ==
    /\ keys = {}
    /\ serverNow = 1
    /\ attest \in BOOLEAN
    /\ reqs = [q \in Requests |-> <<>>]
    /\ reply = NoReply
    /\ firstInsert = [r \in ReportedRpis |-> <<>>]

\* The server clock advances.
ServerTick ==
    /\ serverNow < MaxServerTime
    /\ serverNow' = serverNow + 1
    /\ reply' = NoReply
    /\ UNCHANGED <<keys, attest, reqs, firstInsert, nonServerVars>>

\* What a request is answered before its handler runs: body validation
\* against the route's schema (400), then the preHandler hook (401, 403, or
\* 500 when it throws); 0 when the handler is reached.
Rejection(route, provided, token, body) ==
    IF route = ReportRoute /\ ~SchemaOk(body) THEN 400
    ELSE PreHandler(route, provided, token, attest)

Answer(route, provided, token, status, sent) ==
    [route |-> route, secretOk |-> (provided = Secret),
     attestOk |-> attestVerifier(token), status |-> status, sent |-> sent,
     ran |-> status = 200]

\* POST /v1/report arrives: it is rejected, or its handler starts the
\* bulkWrite of its operations.
ReceiveReport(q, provided, token, body) ==
    /\ reqs[q] = <<>>
    /\ LET status == Rejection(ReportRoute, provided, token, body) IN
         IF status # 0
           THEN /\ reply' = Answer(ReportRoute, provided, token, status, 0)
                /\ UNCHANGED reqs
           ELSE /\ reqs' = [reqs EXCEPT ![q] = body]
                /\ reply' = NoReply
    /\ UNCHANGED <<keys, serverNow, attest, firstInsert, nonServerVars>>

\* The next operation of the bulkWrite of a report is applied; after the
\* last one bulkWrite resolves and the handler returns { success: true }.
ReportStep(q) ==
    /\ reqs[q] # <<>>
    /\ LET item == Head(reqs[q])
           id == Cardinality(keys) + 1
           meta == IF item.encryptedMetadata = "" THEN Null ELSE item.encryptedMetadata
       IN /\ keys' = Upsert(keys, item, serverNow, id)
          /\ firstInsert' =
               IF firstInsert[item.rpi] = <<>>
                 THEN [firstInsert EXCEPT ![item.rpi] =
                         <<[metadata |-> meta, createdAt |-> serverNow, again |-> FALSE]>>]
                 ELSE [firstInsert EXCEPT ![item.rpi][1].again = TRUE]
    /\ reqs' = [reqs EXCEPT ![q] = Tail(@)]
    /\ reply' = IF Len(reqs[q]) = 1
                  THEN Answer(ReportRoute, Secret, "good", 200, 0)
                  ELSE NoReply
    /\ UNCHANGED <<serverNow, attest, nonServerVars>>

\* GET /v1/download arrives: rejected, or answered with one page.
Download(provided, since, cursor) ==
    /\ LET status == Rejection(DownloadRoute, provided, "", <<>>)
           page == FindPage(keys, since, cursor)
       IN reply' = IF status # 0
                     THEN Answer(DownloadRoute, provided, "", status, 0)
                     ELSE Answer(DownloadRoute, provided, "", 200, Len(page))
    /\ UNCHANGED <<keys, serverNow, attest, reqs, firstInsert, nonServerVars>>

\* GET /health arrives.
Health(provided) ==
    /\ reply' = Answer(HealthRoute, provided, "", 200, 0)
    /\ UNCHANGED <<keys, serverNow, attest, reqs, firstInsert, nonServerVars>>

ServerNext ==
    \/ ServerTick
    \/ \E q \in Requests, r \in ReportRequests :
            ReceiveReport(q, r.provided, r.token, r.body)
    \/ \E q \in Requests : ReportStep(q)
    \/ \E r \in DownloadRequests : Download(r.provided, r.since, r.cursor)
    \/ \E provided \in HealthRequests : Health(provided)

\* The server under reports that carry the right secret only.
IngestNext ==
    \/ ServerTick
    \/ \E q \in Requests, token \in AttestTokens, body \in ValidBodies \cup InvalidBodies :
            ReceiveReport(q, Secret, token, body)
    \/ \E q \in Requests : ReportStep(q)

(***************************************************************************)
(* The binary page: serializeKeys (server), _parseBinaryResponse (client)  *)
(***************************************************************************)
MaxKeys == 2            \* keys in an encoded page

RPI_BYTES == 1          \* 16: bytes of an RPI on the wire (two hex digits here)
COUNT_BYTES == 4        \* writeUInt32BE / getUint32
TS_BYTES == 8           \* writeDoubleBE / getFloat64
LEN_BYTES == 2          \* writeUInt16BE / getUint16
MIN_KEY_BYTES == RPI_BYTES + TS_BYTES + LEN_BYTES   \* the 26 of the parser

\* k.metadata null in a document; metadata undefined in a parsedKeys key.
NoMeta == <<"null">>
Undefined == <<"undefined">>

\* The characters metadata strings are made of here, with their UTF-8
\* bytes: two ASCII characters, U+00E9, U+FEFF (byte order mark), and
\* U+FFFD, which a decoder puts for bytes that are not UTF-8.
MetaChars == {"a", ":", "e'", "BOM"}

Utf8Bytes(ch) ==
    CASE ch = "a"    -> <<97>>
      [] ch = ":"    -> <<58>>
      [] ch = "e'"   -> <<195, 169>>
      [] ch = "BOM"  -> <<239, 187, 191>>
      [] ch = "FFFD" -> <<239, 191, 189>>

\* buffer.write(str) / Buffer.byteLength(str): the UTF-8 bytes of a string.
RECURSIVE TextEncode(_)
TextEncode(str) ==
    IF str = <<>> THEN <<>> ELSE Utf8Bytes(Head(str)) \o TextEncode(Tail(str))

\* The length of the UTF-8 sequence a lead byte announces.
SequenceLength(lead) ==
    IF lead < 128 THEN 1 ELSE IF lead < 224 THEN 2 ELSE IF lead < 240 THEN 3 ELSE 4

CharOf(bytes) ==
    IF \E ch \in MetaChars \cup {"FFFD"} : Utf8Bytes(ch) = bytes
      THEN CHOOSE ch \in MetaChars \cup {"FFFD"} : Utf8Bytes(ch) = bytes
      ELSE "FFFD"

RECURSIVE Utf8Decode(_)
Utf8Decode(bytes) ==
    IF bytes = <<>> THEN <<>>
    ELSE LET n == SequenceLength(Head(bytes))
         IN IF n > Len(bytes) THEN <<"FFFD">>
            ELSE <<CharOf(SubSeq(bytes, 1, n))>> \o Utf8Decode(SubSeq(bytes, n + 1, Len(bytes)))

\* new TextDecoder('utf-8').decode(bytes): ignoreBOM is false, so a leading
\* byte order mark is not part of the result.
TextDecode(bytes) ==
    LET s == Utf8Decode(bytes)
    IN IF s # <<>> /\ Head(s) = "BOM" THEN Tail(s) ELSE s

\* writeUInt32BE / getUint32, writeUInt16BE / getUint16.
writeUInt32BE(n) ==
    <<(n \div 16777216) % 256, (n \div 65536) % 256, (n \div 256) % 256, n % 256>>

getUint32(b) == b[1] * 16777216 + b[2] * 65536 + b[3] * 256 + b[4]

writeUInt16BE(n) == <<(n \div 256) % 256, n % 256>>

getUint16(b) == b[1] * 256 + b[2]

\* writeDoubleBE(ts) for an integer 0 <= ts < 32: sign 0, the exponent
\* biased by 1023 in the next 11 bits, then the fraction, of which only the
\* first four bits can be set for such a value.
writeDoubleBE(ts) ==
    IF ts = 0 THEN <<0, 0, 0, 0, 0, 0, 0, 0>>
    ELSE LET e == CHOOSE x \in 0..4 : 2^x <= ts /\ ts < 2^(x + 1)
             biased == 1023 + e
             frac == ((ts - 2^e) * 16) \div 2^e
         IN <<biased \div 16, (biased % 16) * 16 + frac, 0, 0, 0, 0, 0, 0>>

\* getFloat64 of eight bytes whose last six are zero and whose exponent is
\* not negative: (1 + frac / 16) * 2^e.
getFloat64(b) ==
    IF b[1] = 0 /\ b[2] = 0 THEN 0
    ELSE LET e == b[1] * 16 + (b[2] \div 16) - 1023
             frac == b[2] % 16
         IN ((16 + frac) * 2^e) \div 16

\* if (k.metadata) size += Buffer.byteLength(k.metadata)
MetaSize(meta) == IF meta = NoMeta \/ meta = <<>> THEN 0 ELSE Len(TextEncode(meta))

\* First pass of serializeKeys: the size it allocates.
RECURSIVE FirstPassSize(_)
FirstPassSize(ks) ==
    IF ks = <<>> THEN COUNT_BYTES
    ELSE RPI_BYTES + TS_BYTES + LEN_BYTES + MetaSize(Head(ks).metadata)
            + FirstPassSize(Tail(ks))

\* Second pass, one key: what it writes.
EncodeKey(k) ==
    LET metaStr == IF k.metadata = NoMeta THEN <<>> ELSE k.metadata
        metaLen == Len(TextEncode(metaStr))
    IN SubSeq(k.rpi, 1, RPI_BYTES) \o writeDoubleBE(k.createdAt) \o writeUInt16BE(metaLen)
          \o (IF metaLen > 0 THEN TextEncode(metaStr) ELSE <<>>)

RECURSIVE EncodeKeys(_)
EncodeKeys(ks) ==
    IF ks = <<>> THEN <<>> ELSE EncodeKey(Head(ks)) \o EncodeKeys(Tail(ks))

\* serializeKeys(keys): the size allocated and the bytes written from
\* offset 0 on.
serializeKeys(ks) ==
    [size |-> FirstPassSize(ks), bytes |-> writeUInt32BE(Len(ks)) \o EncodeKeys(ks)]

\* The buffer serializeKeys returns: `size` bytes; what was not written is
\* whatever allocUnsafe left there (fill), what did not fit is not there.
ReturnedBuffer(w, fill) ==
    [i \in 1..w.size |-> IF i <= Len(w.bytes) THEN w.bytes[i] ELSE fill]

\* Mutant: the parser checks for the RPI only.
KeyFits_RpiOnly(len, offset) == offset + RPI_BYTES <= len

\* if (offset + 26 > buffer.byteLength) break
KeyFits(len, offset) == offset + MIN_KEY_BYTES <= len

\* if (offset + metaLen > buffer.byteLength) break
MetaFits(len, offset, metaLen) == offset + metaLen <= len

\* buffer.slice for a read that is in range.
Bytes(buf, offset, n) == SubSeq(buf, offset + 1, offset + n)

\* The loop of _parseBinaryResponse from key i on. threw: a DataView or
\* Uint8Array access went past the end of the buffer (RangeError).
RECURSIVE ParseKeys(_, _, _, _)
ParseKeys(buf, offset, i, count) ==
    IF i >= count \/ ~KeyFits(Len(buf), offset)
      THEN [keys |-> <<>>, threw |-> FALSE]
    ELSE IF offset + MIN_KEY_BYTES > Len(buf)
      THEN [keys |-> <<>>, threw |-> TRUE]
    ELSE LET rpi == BufferToHex(Bytes(buf, offset, RPI_BYTES))
             reportedAt == getFloat64(Bytes(buf, offset + RPI_BYTES, TS_BYTES))
             metaLen == getUint16(Bytes(buf, offset + RPI_BYTES + TS_BYTES, LEN_BYTES))
             at == offset + MIN_KEY_BYTES
         IN IF metaLen > 0 /\ ~MetaFits(Len(buf), at, metaLen)
              THEN [keys |-> <<>>, threw |-> FALSE]
            ELSE LET metadata == IF metaLen > 0 THEN TextDecode(Bytes(buf, at, metaLen))
                                 ELSE Undefined
                     rest == ParseKeys(buf, at + metaLen, i + 1, count)
                 IN [keys |-> <<[rpi |-> rpi, reportedAt |-> reportedAt,
                                 metadata |-> metadata]>> \o rest.keys,
                     threw |-> rest.threw]

\* _parseBinaryResponse(buffer)
parseBinaryResponse(buf) ==
    IF Len(buf) < COUNT_BYTES THEN [keys |-> <<>>, threw |-> FALSE]
    ELSE ParseKeys(buf, COUNT_BYTES, 0, getUint32(Bytes(buf, 0, COUNT_BYTES)))

\* The documents a page is made of: RPI bytes, metadata as stored (null or
\* a non-empty string), createdAt.
CodecDoc(rpi, meta, t) == [rpi |-> HexToBuffer(rpi), metadata |-> meta, createdAt |-> t]

CodecDocs ==
    {CodecDoc(RpiNames[1], NoMeta, 1),
     CodecDoc(RpiNames[2], <<"a">>, 3),
     CodecDoc(RpiNames[1], <<"e'", ":">>, 3),
     CodecDoc(RpiNames[2], <<"a", ":", "a">>, 1),
     CodecDoc(RpiNames[1], <<"BOM", "a">>, 1)}

NoWire == [size |-> 0, bytes |-> <<>>]
NotParsed == [keys |-> <<>>, threw |-> FALSE]

CodecInit ==
    /\ pageDocs = <<>>
    /\ wire = NoWire
    /\ received = <<>>
    /\ parsedKeys = NotParsed
    /\ codecPc = "query"

\* The find of /v1/download yields one more document.
AddKey(k) ==
    /\ codecPc = "query"
    /\ Len(pageDocs) < MaxKeys
    /\ pageDocs' = Append(pageDocs, k)
    /\ UNCHANGED <<wire, received, parsedKeys, codecPc, nonCodecVars>>

\* serializeKeys(keys)
Serialize ==
    /\ codecPc = "query"
    /\ wire' = serializeKeys(pageDocs)
    /\ codecPc' = "sent"
    /\ UNCHANGED <<pageDocs, received, parsedKeys, nonCodecVars>>

\* The client receives the first cut bytes of the buffer.
Deliver(cut, fill) ==
    /\ codecPc = "sent"
    /\ cut \in 0..wire.size
    /\ fill # 0 => wire.size > Len(wire.bytes)
    /\ received' = SubSeq(ReturnedBuffer(wire, fill), 1, cut)
    /\ codecPc' = "received"
    /\ UNCHANGED <<pageDocs, wire, parsedKeys, nonCodecVars>>

\* _parseBinaryResponse(buffer)
Parse ==
    /\ codecPc = "received"
    /\ parsedKeys' = parseBinaryResponse(received)
    /\ codecPc' = "parsed"
    /\ UNCHANGED <<pageDocs, wire, received, nonCodecVars>>

\* The longest encoded page: every key with the longest metadata.
MaxPageBytes == COUNT_BYTES + MaxKeys * (MIN_KEY_BYTES + 4)

CodecNext ==
    \/ \E k \in CodecDocs : AddKey(k)
    \/ Serialize
    \/ \E cut \in 0..MaxPageBytes, fill \in {0, 255} : Deliver(cut, fill)
    \/ Parse

(***************************************************************************)
(* MatcherService.fetchAndMatch against the drop server                    *)
(***************************************************************************)
NumPasses == 2          \* fetchAndMatch calls, which may overlap

Passes == 1..NumPasses

\* parseInt(await AsyncStorage.getItem(LAST_SYNC_KEY) || '0', 10)
ReadLastSync(item) == ParseInt(IF item = "" THEN "0" ELSE item)

IdlePass ==
    [pc |-> "idle", lastSync |-> 0, maxReportedAt |-> 0, cursor |-> 0,
     resp |-> <<>>, allMatches |-> <<>>, emitted |-> <<>>, errors |-> 0,
     returned |-> <<>>, cause |-> "", wrote |-> FALSE, others |-> FALSE,
     seen |-> <<>>, docs |-> 0]

MatcherInit ==
    /\ lastSyncItem = ""
    /\ appSecret \in {Secret, <<"a", "c">>}
    /\ passes = [p \in Passes |-> IdlePass]

\* The device of SpecMatcher after it logged one contact.
ContactsInit ==
    /\ now = 1
    /\ rescanIntervalMs = RescanMs
    /\ lastScanByRpi = <<[rpi |-> RpiNames[1], last |-> 1]>>
    /\ scanHistory = lastScanByRpi
    /\ scannedEvents = <<[rpi |-> RpiNames[1], metadataKey |-> "c0de", timestamp |-> 1]>>
    /\ scans = [s \in Scanners |-> IdleScan]
    /\ scanResult = "none"
    /\ cleanup = IdleCleanup
    /\ stamped = [r \in Rpis |-> IF r = RpiNames[1] THEN 1 ELSE 0]
    /\ logged = {RpiNames[1]}

\* JavaScript's undefined, among the string tokens of the matcher.
undefined == "undefined"

\* serializeKeys on the server and _parseBinaryResponse on the client. The
\* metadata strings of this part are ASCII tokens, which the codec carries
\* unchanged; stored null and "" both arrive as undefined.
WireKeys(page) ==
    [i \in 1..Len(page) |->
        [rpi |-> BufferToHex(page[i].rpi), reportedAt |-> page[i].createdAt,
         metadata |-> IF page[i].metadata \in {Null, ""} THEN undefined
                      ELSE page[i].metadata]]

\* An exception on its way out of a function.
Threw == "throw"

\* encryptedStr.split(':')
split(encryptedStr) ==
    CASE encryptedStr = "iv:tag:ct" -> <<"iv", "tag", "ct">>
      [] encryptedStr = "iv:tag:cx" -> <<"iv", "tag", "cx">>
      [] encryptedStr = "iv:tag3:ct3" -> <<"iv", "tag3", "ct3">>
      [] encryptedStr = "iv:ct" -> <<"iv", "ct">>
      [] OTHER -> <<encryptedStr>>

\* AES-256-GCM: the ciphertexts and tags that authenticate, each under its
\* key and IV, with the plaintext they open to.
Sealed ==
    {[key |-> "c0de", iv |-> "iv", tag |-> "tag", ct |-> "ct", plain |-> "{meta}"],
     [key |-> "beef", iv |-> "iv", tag |-> "tag", ct |-> "cx", plain |-> "{meta}"],
     [key |-> "c0de", iv |-> "iv", tag |-> "tag3", ct |-> "ct3", plain |-> "text"]}

\* createDecipheriv, setAuthTag, update, final: final throws unless the tag
\* authenticates the ciphertext under the key.
Decipher(keyHex, parts) ==
    LET opens == {x \in Sealed : /\ x.key = keyHex /\ x.iv = parts[1]
                                 /\ x.tag = parts[2] /\ x.ct = parts[3]}
    IN IF opens = {} THEN Threw ELSE (CHOOSE x \in opens : TRUE).plain

\* JSON.parse
JSONParse(text) == IF text = "{meta}" THEN "meta" ELSE Threw

\* The try block of _decrypt.
TryDecrypt(encryptedStr, keyHex) ==
    LET parts == split(encryptedStr) IN
      IF Len(parts) # 3 THEN undefined
      ELSE LET decrypted == Decipher(keyHex, parts) IN
             IF decrypted = Threw THEN Threw ELSE JSONParse(decrypted)

\* Mutant: _decrypt without its catch.
decrypt_NoCatch(encryptedStr, keyHex) ==
    IF encryptedStr \in {undefined, ""} THEN undefined
    ELSE TryDecrypt(encryptedStr, keyHex)

\* _decrypt(encryptedStr, keyHex): undefined for missing metadata; any
\* exception of the try block is caught and undefined returned.
decrypt(encryptedStr, keyHex) ==
    IF encryptedStr \in {undefined, ""} THEN undefined
    ELSE LET result == TryDecrypt(encryptedStr, keyHex) IN
           IF result = Threw THEN undefined ELSE result

\* storage.getMatchingScans(rpis)
getMatchingScans(rows, rpis) == SelectSeq(rows, LAMBDA s : s.rpi \in rpis)

\* The processor of fetchAndMatch applied to one page.
RECURSIVE ToMatches(_, _)
ToMatches(matching, page) ==
    IF matching = <<>> THEN <<>>
    ELSE LET s == Head(matching)
             \* infectedMap.get(s.rpi): the last key of the page with that rpi
             last == Max({i \in 1..Len(page) : page[i].rpi = s.rpi})
         IN <<[rpi |-> s.rpi, timestamp |-> s.timestamp,
               metadata |-> decrypt(page[last].metadata, s.metadataKey),
               reportedAt |-> page[last].reportedAt]>> \o ToMatches(Tail(matching), page)

PageMax(max, page) ==
    IF page = <<>> THEN max
    ELSE Max({max} \cup {page[i].reportedAt : i \in 1..Len(page)})

\* Mutant: the catch block returns the matches gathered so far.
Fail_KeepMatches(pass, cause) ==
    [pass EXCEPT !.pc = "failed", !.errors = @ + 1, !.returned = pass.allMatches,
                 !.cause = cause, !.resp = <<>>]

\* The catch block of fetchAndMatch: emit('error'), return [].
Fail(pass, cause) ==
    [pass EXCEPT !.pc = "failed", !.errors = @ + 1, !.returned = <<>>,
                 !.cause = cause, !.resp = <<>>]

\* After the download: emit('match') when there are matches, then the call
\* of cleanupOldScans.
EmitAndCleanup(pass) ==
    [pass EXCEPT !.pc = "cleanup",
                 !.emitted = IF Len(pass.allMatches) > 0
                               THEN Append(@, pass.allMatches) ELSE @]

\* fetchAndMatch() is called: the checkpoint is read and the first request
\* is sent.
Start(p) ==
    /\ passes[p].pc = "idle"
    /\ LET lastSync == ReadLastSync(lastSyncItem) IN
         passes' = [passes EXCEPT ![p] =
            [IdlePass EXCEPT !.pc = "sent", !.lastSync = lastSync,
                             !.maxReportedAt = lastSync]]
    /\ reply' = NoReply
    /\ UNCHANGED <<lastSyncItem, appSecret, keys, serverNow, attest, reqs, firstInsert,
                   sdkVars, storeVars, bootVars, codecVars, uploadVars, bleVars>>

\* The server handles the download request of a pass (up), or the request
\* is answered 5xx on the way (~up); the response travels back.
Serve(p, up) ==
    /\ passes[p].pc = "sent"
    /\ LET pass == passes[p]
           rejected == Rejection(DownloadRoute, appSecret, "", <<>>)
           status == IF ~up THEN 502 ELSE IF rejected # 0 THEN rejected ELSE 200
           page == IF status = 200
                     THEN FindPage(keys, ToNumeral(pass.lastSync), pass.cursor)
                     ELSE <<>>
       IN /\ passes' = [passes EXCEPT ![p] =
                [pass EXCEPT !.pc = "inflight",
                             !.docs = IF pass.cursor = 0 THEN Cardinality(keys) ELSE @,
                             !.resp = <<[status |-> status, keys |-> WireKeys(page),
                                         next |-> NextCursor(page)]>>]]
          /\ reply' = IF up THEN Answer(DownloadRoute, appSecret, "", status, Len(page))
                      ELSE NoReply
    /\ UNCHANGED <<lastSyncItem, appSecret, keys, serverNow, attest, reqs, firstInsert,
                   sdkVars, storeVars, bootVars, codecVars, uploadVars, bleVars>>

\* Mutant: the tracked maximum is stored on the way out of a failed fetch.
NetFail_Persisting(p) ==
    /\ passes[p].pc \in {"sent", "inflight"}
    /\ passes' = [passes EXCEPT ![p] = Fail(@, "http")]
    /\ lastSyncItem' = ToNumeral(passes[p].maxReportedAt)
    /\ reply' = NoReply
    /\ UNCHANGED <<appSecret, keys, serverNow, attest, reqs, firstInsert,
                   sdkVars, storeVars, bootVars, codecVars, uploadVars, bleVars>>

\* fetch rejects (no connection, or the connection breaks).
NetFail(p) ==
    /\ passes[p].pc \in {"sent", "inflight"}
    /\ passes' = [passes EXCEPT ![p] = Fail(@, "http")]
    /\ reply' = NoReply
    /\ UNCHANGED <<lastSyncItem, appSecret, keys, serverNow, attest, reqs, firstInsert,
                   sdkVars, storeVars, bootVars, codecVars, uploadVars, bleVars>>

\* The response arrives. Not ok: throw. Else the page is parsed and
\* processed (getMatchingScans resolves; an exception out of the processor
\* reaches the catch of fetchAndMatch), the cursor is taken from the
\* header, and after the yield either the next request is sent or, past the
\* loop, setItem is called when the maximum grew, else the matches are
\* emitted and cleanupOldScans is called.
Arrive(p) ==
    /\ passes[p].pc = "inflight"
    /\ LET pass == passes[p]
           res == pass.resp[1]
           page == res.keys
           rpis == {page[i].rpi : i \in 1..Len(page)}
           matching == getMatchingScans(scannedEvents, rpis)
           found == ToMatches(matching, page)
           processed ==
              [pass EXCEPT !.resp = <<>>,
                           !.maxReportedAt = PageMax(@, page),
                           !.allMatches = @ \o found,
                           !.seen = @ \o [i \in 1..Len(page) |-> page[i].rpi],
                           !.cursor = res.next]
       IN passes' = [passes EXCEPT ![p] =
            IF res.status # 200 THEN Fail(pass, "http")
            ELSE IF \E i \in 1..Len(found) : found[i].metadata = Threw
              THEN Fail(pass, "decrypt")
            ELSE IF processed.cursor # 0 THEN [processed EXCEPT !.pc = "sent"]
            ELSE IF processed.maxReportedAt > processed.lastSync
              THEN [processed EXCEPT !.pc = "saving"]
            ELSE EmitAndCleanup(processed)]
    /\ reply' = NoReply
    /\ UNCHANGED <<lastSyncItem, appSecret, keys, serverNow, attest, reqs, firstInsert,
                   sdkVars, storeVars, bootVars, codecVars, uploadVars, bleVars>>

\* The response arrived with keys and getMatchingScans rejects.
MatchFail(p) ==
    /\ passes[p].pc = "inflight"
    /\ passes[p].resp[1].status = 200
    /\ passes[p].resp[1].keys # <<>>
    /\ passes' = [passes EXCEPT ![p] = Fail(@, "store")]
    /\ reply' = NoReply
    /\ UNCHANGED <<lastSyncItem, appSecret, keys, serverNow, attest, reqs, firstInsert,
                   sdkVars, storeVars, bootVars, codecVars, uploadVars, bleVars>>

\* AsyncStorage.setItem(LAST_SYNC_KEY, ...) resolves: the checkpoint is
\* stored, the matches are emitted, cleanupOldScans is called.
Saved(p) ==
    /\ passes[p].pc = "saving"
    /\ lastSyncItem' = ToNumeral(passes[p].maxReportedAt)
    /\ passes' = [q \in Passes |->
          IF q = p THEN EmitAndCleanup([passes[q] EXCEPT !.wrote = TRUE])
          ELSE IF passes[q].pc = "idle" THEN passes[q]
          ELSE [passes[q] EXCEPT !.others = TRUE]]
    /\ reply' = NoReply
    /\ UNCHANGED <<appSecret, keys, serverNow, attest, reqs, firstInsert,
                   sdkVars, storeVars, bootVars, codecVars, uploadVars, bleVars>>

\* AsyncStorage.setItem rejects.
SaveFail(p) ==
    /\ passes[p].pc = "saving"
    /\ passes' = [passes EXCEPT ![p] = Fail(@, "store")]
    /\ reply' = NoReply
    /\ UNCHANGED <<lastSyncItem, appSecret, keys, serverNow, attest, reqs, firstInsert,
                   sdkVars, storeVars, bootVars, codecVars, uploadVars, bleVars>>

\* cleanupOldScans resolves (its effect on the store taken in one step) and
\* fetchAndMatch returns allMatches.
CleanupDone(p) ==
    /\ passes[p].pc = "cleanup"
    /\ passes' = [passes EXCEPT ![p].pc = "done", ![p].returned = passes[p].allMatches]
    /\ scannedEvents' = SelectSeq(scannedEvents,
                                  LAMBDA row : ~(row.timestamp < now - RETENTION_MS))
    /\ lastScanByRpi' = IF rescanIntervalMs > 0
                          THEN PruneOld(lastScanByRpi, rescanIntervalMs, now)
                          ELSE lastScanByRpi
    /\ scanHistory' = IF rescanIntervalMs > 0 THEN lastScanByRpi' ELSE scanHistory
    /\ reply' = NoReply
    /\ UNCHANGED <<lastSyncItem, appSecret, keys, serverNow, attest, reqs, firstInsert,
                   sdkVars, now, rescanIntervalMs, scans, scanResult, cleanup, stamped,
                   logged, bootVars, codecVars, uploadVars, bleVars>>

\* cleanupOldScans rejects.
CleanupRejected(p) ==
    /\ passes[p].pc = "cleanup"
    /\ passes' = [passes EXCEPT ![p] = Fail(@, "store")]
    /\ reply' = NoReply
    /\ UNCHANGED <<lastSyncItem, appSecret, keys, serverNow, attest, reqs, firstInsert,
                   sdkVars, storeVars, bootVars, codecVars, uploadVars, bleVars>>

\* The caller has the result of the call; the next call may start.
Return(p) ==
    /\ passes[p].pc \in {"done", "failed"}
    /\ passes' = [passes EXCEPT ![p] = IdlePass]
    /\ reply' = NoReply
    /\ UNCHANGED <<lastSyncItem, appSecret, keys, serverNow, attest, reqs, firstInsert,
                   sdkVars, storeVars, bootVars, codecVars, uploadVars, bleVars>>

\* The encryptedMetadata of the reports: sealed under the key of the
\* contact's QR code, sealed under another key, sealed text that is no
\* JSON, a string of two parts, a string of one part, and none.
ReportedMetadata == {"iv:tag:ct", "iv:tag:cx", "iv:tag3:ct3", "iv:ct", "m1", ""}

\* The passes of one device, and reporters that upload RPIs not yet on the
\* server, one per report.
MatcherNext ==
    \/ ServerTick
    \/ \E r \in ReportedRpis :
          /\ firstInsert[r] = <<>>
          /\ ReceiveReport(1, Secret, "good", <<Entry(r, "m1")>>)
    \/ ReportStep(1)
    \/ \E p \in Passes : Start(p)
    \/ \E p \in Passes, up \in BOOLEAN : Serve(p, up)
    \/ \E p \in Passes : NetFail(p)
    \/ \E p \in Passes : Arrive(p)
    \/ \E p \in Passes : MatchFail(p)
    \/ \E p \in Passes : Saved(p)
    \/ \E p \in Passes : SaveFail(p)
    \/ \E p \in Passes : CleanupDone(p)
    \/ \E p \in Passes : CleanupRejected(p)
    \/ \E p \in Passes : Return(p)

\* The same with one call at a time.
PassNext ==
    \/ ServerTick
    \/ \E r \in ReportedRpis :
          /\ firstInsert[r] = <<>>
          /\ ReceiveReport(1, Secret, "good", <<Entry(r, "m1")>>)
    \/ ReportStep(1)
    \/ Start(1)
    \/ \E up \in BOOLEAN : Serve(1, up)
    \/ NetFail(1)
    \/ Arrive(1)
    \/ MatchFail(1)
    \/ Saved(1)
    \/ SaveFail(1)
    \/ CleanupDone(1)
    \/ CleanupRejected(1)
    \/ Return(1)

\* The server after the first n RPIs were reported one by one at the
\* times at[1] <= ... <= at[n]; no request is being handled.
ReportedInit ==
    \E n \in 0..NumReported : \E at \in [1..n -> 1..MaxServerTime] :
       /\ \A i \in 1..n : i > 1 => at[i - 1] <= at[i]
       /\ keys = {[id |-> i, rpi |-> HexToBuffer(RpiNames[i]), metadata |-> "m1",
                    createdAt |-> at[i]] : i \in 1..n}
       /\ serverNow = MaxServerTime
       /\ attest = FALSE
       /\ reqs = [q \in Requests |-> <<>>]
       /\ reply = NoReply
       /\ firstInsert = [r \in ReportedRpis |->
             IF \E i \in 1..n : RpiNames[i] = r
               THEN <<[metadata |-> "m1",
                       createdAt |-> at[CHOOSE i \in 1..n : RpiNames[i] = r],
                       again |-> FALSE]>>
               ELSE <<>>]

\* One call at a time against a server that holds its rows, and no
\* failure: the server answers every request, every promise of the pass
\* resolves.
PagingNext ==
    \/ Start(1)
    \/ Serve(1, TRUE)
    \/ Arrive(1)
    \/ Saved(1)
    \/ CleanupDone(1)
    \/ Return(1)

\* The server answers 200 and the body arrives cut short, with its headers
\* whole: _parseBinaryResponse returns the n keys that lie before the cut
\* and throws nothing.
ServeCut(p, n) ==
    /\ passes[p].pc = "sent"
    /\ Rejection(DownloadRoute, appSecret, "", <<>>) = 0
    /\ LET pass == passes[p]
           page == FindPage(keys, ToNumeral(pass.lastSync), pass.cursor)
       IN /\ n < Len(page)
          /\ passes' = [passes EXCEPT ![p] =
                [pass EXCEPT !.pc = "inflight",
                             !.docs = IF pass.cursor = 0 THEN Cardinality(keys) ELSE @,
                             !.resp = <<[status |-> 200,
                                         keys |-> SubSeq(WireKeys(page), 1, n),
                                         next |-> NextCursor(page)]>>]]
          /\ reply' = Answer(DownloadRoute, appSecret, "", 200, Len(page))
    /\ UNCHANGED <<lastSyncItem, appSecret, keys, serverNow, attest, reqs, firstInsert,
                   sdkVars, storeVars, bootVars, codecVars, uploadVars, bleVars>>

\* The same calls with pages that may arrive cut short.
TruncatedNext ==
    \/ PagingNext
    \/ \E n \in 0..(PAGE_LIMIT - 1) : ServeCut(1, n)

\* Without failure a request is answered, a response arrives, setItem and
\* cleanupOldScans resolve.
PagingFair ==
    /\ WF_vars(Serve(1, TRUE))
    /\ WF_vars(Arrive(1))
    /\ WF_vars(Saved(1))
    /\ WF_vars(CleanupDone(1))

\* One device, one fetchAndMatch() at a time: the contact of the device
\* reports with every kind of metadata, one stranger reports beside it.
MetadataNext ==
    \/ ServerTick
    \/ \E r \in {RpiNames[1], RpiNames[2]}, meta \in ReportedMetadata :
          /\ firstInsert[r] = <<>>
          /\ r # RpiNames[1] => meta = "m1"
          /\ ReceiveReport(1, Secret, "good", <<Entry(r, meta)>>)
    \/ ReportStep(1)
    \/ Start(1)
    \/ \E up \in BOOLEAN : Serve(1, up)
    \/ NetFail(1)
    \/ Arrive(1)
    \/ MatchFail(1)
    \/ Saved(1)
    \/ SaveFail(1)
    \/ CleanupDone(1)
    \/ CleanupRejected(1)
    \/ Return(1)

(***************************************************************************)
(* report(): _encrypt and the report schema                                *)
(***************************************************************************)
\* Strings are modelled by their sizes: length in UTF-16 code units (what
\* String.length counts) and in UTF-8 bytes (what the cipher is fed).
MAX_METADATA_SIZE == 8 * 1024    \* VailixSDK.MAX_METADATA_SIZE
MaxLength == 10240               \* ReportSchema: encryptedMetadata maxLength
IV_BYTES == 12                   \* randomBytes(12)
TAG_BYTES == 16                  \* the authentication tag of aes-256-gcm
Window == 12                     \* plaintext sizes tried about each limit

\* The length of buf.toString('base64'): four characters for every three
\* bytes, the last group padded.
Base64Length(n) == 4 * ((n + 2) \div 3)

\* The most plaintext bytes whose wire string has MaxLength characters or
\* fewer.
FittingBytes ==
    3 * ((MaxLength - Base64Length(IV_BYTES) - Base64Length(TAG_BYTES) - 2) \div 4)

\* JSON.stringify(metadata) for the metadata offered to report(): ASCII
\* texts of sizes about the two limits, short ones, and texts of
\* three-byte characters.
NoMetadata == [units |-> 0, bytes |-> 0]
JsonStrings ==
    {[units |-> n, bytes |-> n] :
        n \in {2, 100} \cup ((FittingBytes - Window)..(FittingBytes + Window))
                       \cup ((MAX_METADATA_SIZE - Window)..(MAX_METADATA_SIZE + Window))}
      \cup {[units |-> n + 2, bytes |-> 3 * n + 2] : n \in {100, 2600, 8190}}

\* The length of `${iv.toString('base64')}:${authTag}:${encrypted}`; GCM
\* yields as many ciphertext bytes as plaintext bytes.
WireLength(jsonStr) ==
    Base64Length(IV_BYTES) + 1 + Base64Length(TAG_BYTES) + 1 + Base64Length(jsonStr.bytes)

\* HTTP statuses a report may be answered with besides the schema's 400:
\* success, the auth hook's 401 and 403, a redirect not followed, a server
\* error.
OtherStatuses == {200, 204, 300, 401, 403, 500}

\* Mutant: every status below 400 counts as success.
ok_Below400(status) == status < 400

\* Response.ok
ok(status) == status \in 200..299

IdleUpload ==
    [pc |-> "idle", json |-> NoMetadata, wireLen |-> 0, posts |-> 0, status |-> 0,
     result |-> "none", errors |-> 0, cause |-> "none"]

\* What travels in requests. A value has a text and the set of values an
\* observer of it reads off: a digest and a ciphertext show themselves (and
\* the IV sent along), not the key or the text that went in.
MaxHistory == 2                  \* RPIs of getHistory(days)
MasterSecret == [text |-> "ms", shows |-> {"ms"}]
Metadata == [text |-> "metadata", shows |-> {"metadata"}]
Plain(str) == [text |-> str, shows |-> IF str = "" THEN {} ELSE {str}]
NoRequest == [line |-> Plain(""), headers |-> <<>>, body |-> <<>>]

\* createHmac('sha256', key).update(data).digest('hex')
Hmac(key, data) ==
    LET digest == "hmac(" \o key.text \o "," \o data \o ")" IN
      [text |-> digest, shows |-> {digest}]

\* Mutant: the plaintext goes out where the ciphertext belongs.
encrypt_Unsealed(jsonStr, key) ==
    IF jsonStr = NoMetadata THEN Plain("") ELSE Metadata

\* _encrypt(metadata, keyHex): '' without metadata, else iv:tag:ciphertext.
encrypt(jsonStr, key) ==
    IF jsonStr = NoMetadata THEN Plain("")
    ELSE LET sealed == "gcm(" \o key.text \o ",iv," \o Metadata.text \o ")" IN
           [text |-> "iv:" \o sealed, shows |-> {"iv", sealed}]

\* identity._generateRPI(currentEpoch - i)
generateRPI(i) == Hmac(MasterSecret, "epoch-" \o ToNumeral(i))

\* identity.getMetadataKey(rpi)
getMetadataKey(rpi) == Hmac(MasterSecret, "meta:" \o rpi.text)

\* identity.getHistory(days), one epoch a day.
getHistory(days) == [i \in 1..days |-> generateRPI(i - 1)]

\* The POST of report(): headers and JSON.stringify({ reports }).
ReportRequest(jsonStr, days, attested) ==
    LET history == getHistory(days) IN
      [line |-> Plain("POST /v1/report"),
       headers |-> <<Plain("application/json"), Plain("appSecret")>>
                     \o (IF attested THEN <<Plain("attestToken")>> ELSE <<>>),
       body |-> [i \in 1..days |->
                   [rpi |-> history[i],
                    encryptedMetadata |-> encrypt(jsonStr, getMetadataKey(history[i]))]]]

\* The GET of _downloadAndProcessKeys.
DownloadRequest(since, cursor) ==
    [line |-> Plain("GET /v1/download?since=" \o since
                      \o (IF cursor = "" THEN "" ELSE "&cursor=" \o cursor)
                      \o "&format=bin"),
     headers |-> <<Plain("appSecret")>>,
     body |-> <<>>]

\* The numbers of the batch-size arithmetic, as they stand in the source.
DAY_MS == 86400000               \* 24 * 60 * 60 * 1000
DEFAULT_EPOCH_MS == 900000       \* 15 * 60 * 1000
DEFAULT_REPORT_DAYS == 14        \* config.reportDays ?? 14
maxItems == 1500                 \* ReportSchema: maxItems on reports

\* An optional number: <<>> for undefined, <<n>> for n.
Absent == <<>>
Given(n) == <<n>>

\* opt ?? default
OrElse(opt, default) == IF opt = Absent THEN default ELSE opt[1]

\* The length of identity.getHistory(days): days * epochsPerDay, for an
\* epoch that divides the day.
HistoryLength(days, epochMs) ==
    LET epochsPerDay == DAY_MS \div epochMs
    IN days * epochsPerDay

\* Values of config.rpiDurationMs, config.reportDays and overrideReportDays:
\* left out, the documented 15 minutes and 24 hours, 10 minutes; left out,
\* 14 days and 30 days; left out, 1 day and 16 days.
RpiDurations == {Absent, Given(DEFAULT_EPOCH_MS), Given(DAY_MS), Given(600000)}
ReportDays == {Absent, Given(DEFAULT_REPORT_DAYS), Given(30)}
OverrideDays == {Absent, Given(1), Given(16)}

\* The engine create(config) hands out: the configuration as passed, the
\* epoch IdentityManager took from it and the reportDays of the engine; no
\* report() under way.
IdleBatch(rpiDurationMs, reportDays) ==
    [pc |-> "idle", config |-> [rpiDurationMs |-> rpiDurationMs, reportDays |-> reportDays],
     epochMs |-> OrElse(rpiDurationMs, DEFAULT_EPOCH_MS),
     reportDays |-> OrElse(reportDays, DEFAULT_REPORT_DAYS),
     days |-> 0, length |-> 0, status |-> 0, result |-> "none"]

UploadInit == upload = IdleUpload /\ outbox = NoRequest /\ batch = IdleBatch(Absent, Absent)

\* create(config) resolved for a configuration doCreate accepts: no
\* rescanIntervalMs, and any rpiDurationMs and reportDays.
BatchInit ==
    /\ upload = IdleUpload
    /\ outbox = NoRequest
    /\ \E d \in RpiDurations, r \in ReportDays : batch = IdleBatch(d, r)

\* report(attestToken, metadata, overrideReportDays) up to the await of
\* fetch: the batch has one entry per RPI of getHistory(daysToReport).
ReportBatch(overrideReportDays) ==
    /\ batch.pc = "idle"
    /\ LET daysToReport == OrElse(overrideReportDays, batch.reportDays) IN
         batch' = [batch EXCEPT !.pc = "posting", !.days = daysToReport,
                                !.length = HistoryLength(daysToReport, batch.epochMs)]
    /\ UNCHANGED <<upload, outbox, nonUploadVars>>

\* POST /v1/report: the body is validated against ReportSchema (400 when
\* reports has more than maxItems entries), else the keys are written.
ValidateBatch ==
    /\ batch.pc = "posting"
    /\ batch' = [batch EXCEPT !.pc = "responded",
                              !.status = IF batch.length > maxItems THEN 400 ELSE 200]
    /\ UNCHANGED <<upload, outbox, nonUploadVars>>

\* fetch resolves: report returns res.ok.
BatchReturn ==
    /\ batch.pc = "responded"
    /\ batch' = [batch EXCEPT !.pc = "returned",
                              !.result = IF ok(batch.status) THEN "true" ELSE "false"]
    /\ UNCHANGED <<upload, outbox, nonUploadVars>>

\* The caller has the result; the next report() may start.
BatchAgain ==
    /\ batch.pc = "returned"
    /\ batch' = [batch EXCEPT !.pc = "idle", !.days = 0, !.length = 0, !.status = 0,
                              !.result = "none"]
    /\ UNCHANGED <<upload, outbox, nonUploadVars>>

BatchNext ==
    \/ \E overrideReportDays \in OverrideDays : ReportBatch(overrideReportDays)
    \/ ValidateBatch
    \/ BatchReturn
    \/ BatchAgain

\* The matcher sends a download request.
SendDownload(since, cursor) ==
    /\ outbox' = DownloadRequest(since, cursor)
    /\ UNCHANGED <<upload, batch, nonUploadVars>>

\* The catch of report(): emit('error', error), return false.
ReportCatch(u, cause) ==
    [u EXCEPT !.pc = "returned", !.result = "false", !.errors = @ + 1, !.cause = cause]

\* report(attestToken, metadata, days) up to the await of fetch: the body
\* is built from getHistory(days); _encrypt returns
\* '' for no metadata, throws when the JSON text is longer than
\* MAX_METADATA_SIZE (caught by report), else the request leaves with the
\* wire string.
Report(jsonStr, days, attested) ==
    /\ upload.pc = "idle"
    /\ upload' =
         IF jsonStr = NoMetadata
           THEN [IdleUpload EXCEPT !.pc = "posting", !.posts = 1]
         ELSE IF jsonStr.units > MAX_METADATA_SIZE
           THEN ReportCatch([IdleUpload EXCEPT !.json = jsonStr], "encrypt")
         ELSE [IdleUpload EXCEPT !.pc = "posting", !.json = jsonStr,
                                 !.wireLen = WireLength(jsonStr), !.posts = 1]
    /\ outbox' = IF upload'.posts = 1 THEN ReportRequest(jsonStr, days, attested)
                 ELSE outbox
    /\ UNCHANGED <<batch, nonUploadVars>>

\* POST /v1/report with the app secret: the body is validated against
\* ReportSchema (400 when encryptedMetadata is longer than maxLength), else
\* the keys are written.
ValidateReport ==
    /\ upload.pc = "posting"
    /\ upload' = [upload EXCEPT !.pc = "responded",
                                !.status = IF upload.wireLen > MaxLength THEN 400 ELSE 200]
    /\ UNCHANGED <<outbox, batch, nonUploadVars>>

\* The request is answered with another status.
Respond(status) ==
    /\ upload.pc = "posting"
    /\ upload' = [upload EXCEPT !.pc = "responded", !.status = status]
    /\ UNCHANGED <<outbox, batch, nonUploadVars>>

\* fetch resolves: report returns res.ok.
ReportReturn ==
    /\ upload.pc = "responded"
    /\ upload' = [upload EXCEPT !.pc = "returned",
                                !.result = IF ok(upload.status) THEN "true" ELSE "false"]
    /\ UNCHANGED <<outbox, batch, nonUploadVars>>

\* fetch rejects (no connection, or the connection breaks before the
\* response is read): report's catch runs.
ReportNetFail ==
    /\ upload.pc \in {"posting", "responded"}
    /\ upload' = ReportCatch([upload EXCEPT !.status = 0], "network")
    /\ UNCHANGED <<outbox, batch, nonUploadVars>>

\* The caller has the result; the next report() may start.
ReportAgain ==
    /\ upload.pc = "returned"
    /\ upload' = IdleUpload
    /\ UNCHANGED <<outbox, batch, nonUploadVars>>

UploadNext ==
    \/ \E jsonStr \in JsonStrings \cup {NoMetadata}, days \in 1..MaxHistory,
          attested \in BOOLEAN : Report(jsonStr, days, attested)
    \/ \E since \in {"0", "1"}, cursor \in {"", "id1"} : SendDownload(since, cursor)
    \/ ValidateReport
    \/ \E status \in OtherStatuses : Respond(status)
    \/ ReportReturn
    \/ ReportNetFail
    \/ ReportAgain

(***************************************************************************)
(* BleService (ble.ts): discovery, pair requests, pairing, unpairing       *)
(***************************************************************************)
DEFAULT_DISCOVERY_TIMEOUT_MS == 1    \* 15000 in the source

MaxStarts == 2                       \* startDiscovery() calls between two stopDiscovery()

\* Device ids: one peer device; the device d advertises RpiNames[d] and
\* hands out the metadata key "c0de".
Devices == {1}

\* An id nearbyUsers has no entry for.
NoUser ==
    [present |-> FALSE, discoveredAt |-> 0, paired |-> FALSE,
     hasIncomingRequest |-> FALSE, fullRpi |-> undefined, metadataKey |-> undefined]

\* The entry handleDiscoveredDevice and handleIncomingPair make at time t.
NewUser(t) == [NoUser EXCEPT !.present = TRUE, !.discoveredAt = t]

\* An id pendingRequests has no entry for. receivedAt, which nothing
\* reads, is left out of the requests; dropped is a mark for the properties:
\* the user was unpaired or timed out while the request was held.
NoPending == [fullRpi |-> "", metadataKey |-> "", dropped |-> FALSE]

\* No pairing call awaits logScan. A call holds the user object and the
\* data it stores; detached: nearbyUsers no longer holds that object.
IdleBle ==
    [kind |-> "none", id |-> 0, fullRpi |-> "", metadataKey |-> "",
     dropped |-> FALSE, detached |-> FALSE]

BleInit ==
    /\ autoAccept \in BOOLEAN
    /\ isScanning = FALSE
    /\ deviceScans = 0
    /\ startCalls = 0
    /\ nearbyUsers = [d \in Devices |-> NoUser]
    /\ pendingRequests = [d \in Devices |-> NoPending]
    /\ bleCall = IdleBle

\* Mutant: the cleanup interval leaves pendingRequests alone.
Expire_KeepPending(pending, stale) == pending

\* pendingRequests.delete(id) for every id of stale.
Expire(pending, stale) ==
    [d \in Devices |-> IF d \in stale THEN NoPending ELSE pending[d]]

\* The users the cleanup interval finds timed out at time t.
Stale(users, t) ==
    {d \in Devices : users[d].present
                     /\ t - users[d].discoveredAt > DEFAULT_DISCOVERY_TIMEOUT_MS}

\* The requests with the mark on those held for the users of S that no
\* pairWithUser call is accepting.
Mark(pending, S) ==
    [d \in Devices |->
        IF /\ d \in S
           /\ pending[d] # NoPending
           /\ ~(bleCall.kind = "accept" /\ bleCall.id = d)
          THEN [pending[d] EXCEPT !.dropped = TRUE]
          ELSE pending[d]]

\* The assignments every pairing path makes after the store step: they
\* reach the user object the call holds.
MarkPaired(users, call) ==
    IF call.detached THEN users
    ELSE [users EXCEPT ![call.id] =
            [@ EXCEPT !.fullRpi = call.fullRpi, !.metadataKey = call.metadataKey,
                      !.paired = TRUE, !.hasIncomingRequest = FALSE]]

\* acceptPendingRequest ends with pendingRequests.delete(userId).
AfterCall(pending, call) ==
    IF call.kind = "accept" THEN Expire(pending, {call.id}) ELSE pending

\* `if (canStore) await logScan(...)` of the three pairing paths, with the
\* users and requests as the path has them by then: up to the await of
\* db.insert when canScan allows the RPI, otherwise to the end of the path.
StoreStep(call, users, pending) ==
    IF canScan(call.fullRpi)
      THEN /\ Len(scannedEvents) < MaxRows
           /\ scans' = [scans EXCEPT ![1] =
                 [pc |-> "inserting", rpi |-> call.fullRpi,
                  key |-> call.metadataKey, ts |-> now]]
           /\ bleCall' = call
           /\ nearbyUsers' = users
           /\ pendingRequests' = pending
      ELSE /\ UNCHANGED scans
           /\ bleCall' = IdleBle
           /\ nearbyUsers' = MarkPaired(users, call)
           /\ pendingRequests' = AfterCall(pending, call)

\* Mutant: startDiscovery without its guard.
AlreadyScanning_Never(flag) == FALSE

\* `if (this.isScanning) return;`
AlreadyScanning(flag) == flag

\* startDiscovery(myRpi, myMetadataKey): the flag is set, and startScanning
\* has called manager.startDeviceScan, before the first await of the call,
\* so calls that overlap run as calls in sequence do.
StartDiscovery ==
    /\ startCalls < MaxStarts
    /\ startCalls' = startCalls + 1
    /\ IF AlreadyScanning(isScanning)
         THEN UNCHANGED <<isScanning, nearbyUsers, bleCall, deviceScans>>
         ELSE /\ isScanning' = TRUE
              /\ nearbyUsers' = [d \in Devices |-> NoUser]
              /\ bleCall' = IF bleCall.kind # "none"
                              THEN [bleCall EXCEPT !.detached = TRUE]
                              ELSE bleCall
              /\ deviceScans' = deviceScans + 1
    /\ UNCHANGED <<autoAccept, pendingRequests, nonBleVars>>

\* stopDiscovery() after a startDiscovery().
StopDiscovery ==
    /\ startCalls > 0
    /\ isScanning' = FALSE
    /\ deviceScans' = 0
    /\ startCalls' = 0
    /\ UNCHANGED <<autoAccept, nearbyUsers, pendingRequests, bleCall, nonBleVars>>

\* The scan callback reports the device d.
HandleDiscoveredDevice(d) ==
    /\ isScanning
    /\ nearbyUsers' = [nearbyUsers EXCEPT ![d] =
          IF @.present THEN [@ EXCEPT !.discoveredAt = now] ELSE NewUser(now)]
    /\ UNCHANGED <<autoAccept, deviceScans, startCalls, isScanning, pendingRequests, bleCall, nonBleVars>>

\* A tick of the cleanup interval that finds users timed out.
CleanupInterval ==
    /\ isScanning
    /\ LET stale == Stale(nearbyUsers, now) IN
         /\ stale # {}
         /\ nearbyUsers' = [d \in Devices |-> IF d \in stale THEN NoUser
                                               ELSE nearbyUsers[d]]
         /\ pendingRequests' = Expire(Mark(pendingRequests, stale), stale)
         /\ bleCall' = IF bleCall.id \in stale THEN [bleCall EXCEPT !.detached = TRUE]
                       ELSE bleCall
    /\ UNCHANGED <<autoAccept, deviceScans, startCalls, isScanning, nonBleVars>>

\* handleIncomingPair(deviceId, rpi, metadataKey): the device d writes its
\* RPI and key.
HandleIncomingPair(d) ==
    /\ LET users == IF nearbyUsers[d].present THEN nearbyUsers
                    ELSE [nearbyUsers EXCEPT ![d] = NewUser(now)]
       IN IF autoAccept
            THEN /\ bleCall = IdleBle
                 /\ scans[1].pc = "idle"
                 /\ StoreStep([kind |-> "incoming", id |-> d, fullRpi |-> RpiNames[d],
                               metadataKey |-> "c0de", dropped |-> FALSE,
                               detached |-> FALSE],
                              users, pendingRequests)
            ELSE /\ pendingRequests' = [pendingRequests EXCEPT ![d] =
                       [fullRpi |-> RpiNames[d], metadataKey |-> "c0de",
                        dropped |-> FALSE]]
                 /\ nearbyUsers' = [users EXCEPT ![d].hasIncomingRequest = TRUE,
                                                 ![d].paired = FALSE]
                 /\ UNCHANGED <<scans, bleCall>>
    /\ scanResult' = "none"
    /\ UNCHANGED <<autoAccept, deviceScans, startCalls, isScanning, now, rescanIntervalMs, lastScanByRpi,
                   scanHistory, scannedEvents, cleanup, stamped, logged, nonStoreBleVars>>

\* pairWithUser(userId) for a user of the list: acceptPendingRequest when a
\* request is held in explicit consent mode, otherwise doExchange, whose
\* connection, reads and writes succeed. (Without the user, without
\* discovery, or with the connection failing the call changes nothing.)
PairWithUser(d) ==
    /\ nearbyUsers[d].present
    /\ bleCall = IdleBle
    /\ scans[1].pc = "idle"
    /\ IF pendingRequests[d] # NoPending /\ ~autoAccept
         THEN StoreStep([kind |-> "accept", id |-> d,
                         fullRpi |-> pendingRequests[d].fullRpi,
                         metadataKey |-> pendingRequests[d].metadataKey,
                         dropped |-> pendingRequests[d].dropped, detached |-> FALSE],
                        nearbyUsers, pendingRequests)
         ELSE /\ isScanning
              /\ StoreStep([kind |-> "exchange", id |-> d, fullRpi |-> RpiNames[d],
                            metadataKey |-> "c0de", dropped |-> FALSE,
                            detached |-> FALSE],
                           nearbyUsers, pendingRequests)
    /\ scanResult' = "none"
    /\ UNCHANGED <<autoAccept, deviceScans, startCalls, isScanning, now, rescanIntervalMs, lastScanByRpi,
                   scanHistory, scannedEvents, cleanup, stamped, logged, nonStoreBleVars>>

\* unpairUser(userId) for a user of the list.
UnpairUser(d) ==
    /\ nearbyUsers[d].present
    /\ nearbyUsers' = [nearbyUsers EXCEPT ![d] =
          [@ EXCEPT !.paired = FALSE, !.hasIncomingRequest = FALSE,
                    !.fullRpi = undefined, !.metadataKey = undefined]]
    /\ pendingRequests' = Expire(Mark(pendingRequests, {d}), {d})
    /\ UNCHANGED <<autoAccept, deviceScans, startCalls, isScanning, bleCall, nonBleVars>>

\* db.insert of the logScan a pairing call awaits resolves: the row is
\* stored, the ledger stamped and pruned, the mirror write issued. (stamped
\* and logged keep the record of the scanQR calls only.)
BleInserted(written) ==
    /\ bleCall # IdleBle
    /\ scans[1].pc = "inserting"
    /\ LET r == scans[1].rpi
           set == LedgerSet(lastScanByRpi, r, now)
           kept == PruneOverflow(set)
       IN /\ scannedEvents' = Append(scannedEvents,
                [rpi |-> r, metadataKey |-> scans[1].key, timestamp |-> scans[1].ts])
          /\ lastScanByRpi' = kept
          /\ scanHistory' = IF written THEN kept ELSE scanHistory
          /\ scans' = [scans EXCEPT ![1] =
                [pc |-> IF written THEN "persisting" ELSE "persistFailing", rpi |-> r,
                 key |-> "", ts |-> 0]]
    /\ scanResult' = "none"
    /\ UNCHANGED <<now, rescanIntervalMs, cleanup, stamped, logged, bleVars,
                   nonStoreBleVars>>

\* logScan returns to the pairing call, which marks the user paired.
BleStored ==
    /\ bleCall # IdleBle
    /\ scans[1].pc = "persisting"
    /\ scans' = [scans EXCEPT ![1] = IdleScan]
    /\ scanResult' = "none"
    /\ nearbyUsers' = MarkPaired(nearbyUsers, bleCall)
    /\ pendingRequests' = AfterCall(pendingRequests, bleCall)
    /\ bleCall' = IdleBle
    /\ UNCHANGED <<autoAccept, deviceScans, startCalls, isScanning, now, rescanIntervalMs, lastScanByRpi,
                   scanHistory, scannedEvents, cleanup, stamped, logged, nonStoreBleVars>>

\* logScan throws (db.insert or AsyncStorage.setItem rejected): the call
\* ends there, rejected or, in doExchange, with success: false.
BleStoreFailed ==
    /\ bleCall # IdleBle
    /\ scans[1].pc \in {"inserting", "persistFailing"}
    /\ scans' = [scans EXCEPT ![1] = IdleScan]
    /\ scanResult' = "none"
    /\ bleCall' = IdleBle
    /\ UNCHANGED <<autoAccept, deviceScans, startCalls, isScanning, nearbyUsers, pendingRequests, now,
                   rescanIntervalMs, lastScanByRpi, scanHistory, scannedEvents, cleanup,
                   stamped, logged, nonStoreBleVars>>

BleNext ==
    \/ Tick
    \/ StartDiscovery
    \/ StopDiscovery
    \/ CleanupInterval
    \/ \E d \in Devices : HandleDiscoveredDevice(d)
    \/ \E d \in Devices : HandleIncomingPair(d)
    \/ \E d \in Devices : PairWithUser(d)
    \/ \E d \in Devices : UnpairUser(d)
    \/ \E written \in BOOLEAN : BleInserted(written)
    \/ BleStored
    \/ BleStoreFailed

(***************************************************************************)
(* Specifications                                                          *)
(***************************************************************************)
\* Each specification starts the machines it does not run in one fixed
\* configuration.
StoreQuiet == StoreInit /\ rescanIntervalMs = RescanMs
ServerQuiet == ServerInit /\ ~attest
MatcherQuiet == MatcherInit /\ appSecret = Secret
BootQuiet == BootInit /\ keyStore = NoKey
BleQuiet == BleInit /\ autoAccept

InitSDK == SDKInit /\ StoreQuiet /\ ServerQuiet /\ MatcherQuiet /\ BootQuiet /\ CodecInit /\ UploadInit /\ BleQuiet

SpecSDK == InitSDK /\ [][SDKNext]_vars

SpecLifecycle == InitSDK /\ [][LifecycleNext]_vars

InitBoot == SDKInit /\ StoreQuiet /\ ServerQuiet /\ MatcherQuiet /\ BootInit /\ CodecInit /\ UploadInit /\ BleQuiet

SpecBoot == InitBoot /\ [][BootNext]_vars

SpecCodec == InitSDK /\ [][CodecNext]_vars

InitStore == SDKInit /\ StoreInit /\ ServerQuiet /\ MatcherQuiet /\ BootQuiet /\ CodecInit /\ UploadInit /\ BleQuiet

SpecStore == InitStore /\ [][StoreNext]_vars

SpecLedger == InitStore /\ [][LedgerNext]_vars

InitCleanup == SDKInit /\ CleanupInit /\ ServerQuiet /\ MatcherQuiet /\ BootQuiet /\ CodecInit /\ UploadInit /\ BleQuiet

SpecCleanup == InitCleanup /\ [][CleanupNext]_vars

InitServer == SDKInit /\ StoreQuiet /\ ServerInit /\ MatcherQuiet /\ BootQuiet /\ CodecInit /\ UploadInit /\ BleQuiet

SpecServer == InitServer /\ [][ServerNext]_vars

SpecIngest == InitServer /\ [][IngestNext]_vars

\* A device that holds a contact, and a server without attestation.
InitMatcher == SDKInit /\ ContactsInit /\ ServerQuiet /\ MatcherInit /\ BootQuiet /\ CodecInit /\ UploadInit /\ BleQuiet

SpecMatcher == InitMatcher /\ [][MatcherNext]_vars

SpecScan == InitStore /\ [][ScanNext]_vars

SpecLogScan == InitStore /\ [][LogScanNext]_vars

SpecPass == InitMatcher /\ [][PassNext]_vars

SpecMetadata == InitMatcher /\ [][MetadataNext]_vars

InitPaging == SDKInit /\ ContactsInit /\ ReportedInit /\ MatcherQuiet /\ BootQuiet /\ CodecInit /\ UploadInit /\ BleQuiet

SpecPaging == InitPaging /\ [][PagingNext]_vars /\ PagingFair

SpecTruncated == InitPaging /\ [][TruncatedNext]_vars

InitBatch == SDKInit /\ StoreQuiet /\ ServerQuiet /\ MatcherQuiet /\ BootQuiet /\ CodecInit /\ BatchInit /\ BleQuiet

SpecBatch == InitBatch /\ [][BatchNext]_vars

SpecUpload == InitSDK /\ [][UploadNext]_vars

InitBle == SDKInit /\ StoreQuiet /\ ServerQuiet /\ MatcherQuiet /\ BootQuiet /\ CodecInit /\ UploadInit /\ BleInit

SpecBle == InitBle /\ [][BleNext]_vars

(***************************************************************************)
(* Properties                                                              *)
(***************************************************************************)

NoFailureSoFar == \A p \in 1..Len(tasks) : tasks[p].pc # "rejected"

\* C1: with no destroy() and no initialization failure so far, however many
\* create() calls were issued (overlapping or one after another), doCreate
\* and initializeDatabase were started at most once -- exactly once as soon
\* as one create() was called -- and every call resolved to the same engine.
C1_SingleInit ==
    (destroyCalls = 0 /\ NoFailureSoFar) =>
        /\ Len(tasks) <= 1
        /\ initDbCalls <= 1
        /\ ((\E c \in Callers : callers[c].pc # "idle") => Len(tasks) = 1)
        /\ Cardinality(handed) <= 1
        /\ \A c \in Callers : callers[c].pc = "resolved" => callers[c].got = 1

\* Three create() calls overlapped one initialization and all resolved.
C1_Witness ==
    /\ destroyCalls = 0 /\ NoFailureSoFar
    /\ \A c \in Callers : callers[c].pc = "resolved" /\ callers[c].got = 1
    /\ initDbCalls = 1

\* ---- rescan throttle ----
HasRow(r) == \E i \in 1..Len(scannedEvents) : scannedEvents[i].rpi = r

\* The timestamp argument of the logScan that stored the latest row of r.
LastRowTs(r) ==
    scannedEvents[Max({i \in 1..Len(scannedEvents) : scannedEvents[i].rpi = r})].timestamp

InFlight(r) == \E s \in Scanners : scans[s].pc # "idle" /\ scans[s].rpi = r

\* C6 as stated: with rescanIntervalMs = R > 0, once logScan(r, _, t0) has
\* returned, canScan(r) is false at every now in [t0, t0+R) and true at
\* now = t0+R, whatever else ran in between; with R = 0 canScan is always true.
C6_Original ==
    /\ rescanIntervalMs = 0 => \A r \in Rpis : canScan(r)
    /\ rescanIntervalMs > 0 =>
         \A r \in logged :
            (HasRow(r) /\ ~InFlight(r)) =>
               LET t0 == LastRowTs(r) IN
                 /\ (t0 <= now /\ now < t0 + rescanIntervalMs) => ~canScan(r)
                 /\ (now = t0 + rescanIntervalMs) => canScan(r)

\* C6 as amended: the window runs from t1, the clock at which logScan stamped
\* the ledger (after its insert resolved), not from the timestamp argument,
\* and it holds for an RPI as long as the overflow pruning has not dropped
\* its entry: canScan(r) is false on [t1, t1+R) and true from t1+R on.
\* cleanupOldScans and logScan of other RPIs that cause no overflow do not
\* change that. With R = 0 canScan is always true.
C6_RescanWindow ==
    /\ rescanIntervalMs = 0 => \A r \in Rpis : canScan(r)
    /\ rescanIntervalMs > 0 =>
         \A r \in Rpis :
            stamped[r] # 0 => (canScan(r) <=> now - stamped[r] >= rescanIntervalMs)

\* A logScan of r returned, its entry is still in the ledger, and the clock
\* stands exactly at the end of the window: canScan has turned true.
C6_Witness ==
    /\ rescanIntervalMs > 0
    /\ \E r \in logged :
         /\ stamped[r] # 0
         /\ LedgerGet(lastScanByRpi, r) = stamped[r]
         /\ now = stamped[r] + rescanIntervalMs
         /\ canScan(r)
         /\ ~InFlight(r)

\* C7: with rescanIntervalMs = R > 0, the scan path (canScan, then logScan)
\* never stores two rows of the same RPI whose capture times are less than
\* R apart, also when the scan calls overlap.
C7_OneRowPerWindow ==
    rescanIntervalMs > 0 =>
        \A i, j \in 1..Len(scannedEvents) :
            (i < j /\ scannedEvents[i].rpi = scannedEvents[j].rpi) =>
                scannedEvents[j].timestamp - scannedEvents[i].timestamp >= rescanIntervalMs

RowsOf(r) == {k \in keys : k.rpi = HexToBuffer(r)}

\* C8: server ingest is idempotent. Once an upsert of a POST /v1/report has
\* named an RPI, the collection holds exactly one document of that RPI,
\* whatever upserts of the same or of concurrent requests name it again, and
\* the document keeps the metadata and the createdAt of that first upsert.
C8_IdempotentIngest ==
    \A r \in ReportedRpis :
        firstInsert[r] # <<>> =>
            /\ Cardinality(RowsOf(r)) = 1
            /\ \A k \in RowsOf(r) :
                  /\ k.metadata = firstInsert[r][1].metadata
                  /\ k.createdAt = firstInsert[r][1].createdAt

\* An RPI was reported again, later, with other metadata, while another
\* report was being written.
C8_Witness ==
    \E r \in ReportedRpis :
        /\ firstInsert[r] # <<>>
        /\ firstInsert[r][1].again
        /\ serverNow > firstInsert[r][1].createdAt
        /\ \E q \in Requests : reqs[q] # <<>>
        /\ reply.route = ReportRoute /\ reply.status = 200

\* C9: a request with a missing or wrong x-vailix-secret on a route other
\* than /health is answered 401, a POST /v1/report with the right secret
\* that fails the configured attestation verifier is answered 403, and in
\* both cases the route handler did not run and no keys went out.
C9_AuthGate ==
    reply # NoReply =>
        /\ (reply.route # HealthRoute /\ ~reply.secretOk) =>
              (reply.status = 401 /\ ~reply.ran /\ reply.sent = 0)
        /\ (reply.route = ReportRoute /\ reply.secretOk /\ attest /\ ~reply.attestOk) =>
              (reply.status = 403 /\ ~reply.ran /\ reply.sent = 0)

\* The part of C9 that the hook does enforce: without the right secret, or
\* without a valid attestation where one is required, no handler runs and
\* no keys go out.
AuthGateSafety ==
    (reply.route # HealthRoute /\ (reply.ran \/ reply.sent > 0)) =>
        /\ reply.secretOk
        /\ (reply.route = ReportRoute /\ attest) => reply.attestOk

HttpFailed(p) == passes[p].pc = "failed" /\ passes[p].cause = "http"

\* C2: when a fetch throws or a page comes back non-2xx, after zero or more
\* pages were processed, the call has not written the checkpoint: unless an
\* overlapping call stored one meanwhile, AsyncStorage[LAST_SYNC_KEY] holds
\* the value the call read at its start.
C2_CheckpointKept ==
    \A p \in Passes :
        HttpFailed(p) =>
            /\ ~passes[p].wrote
            /\ ~passes[p].others => ReadLastSync(lastSyncItem) = passes[p].lastSync

\* A call failed in the HTTP layer after it had processed a page with keys
\* newer than its checkpoint.
C2_Witness ==
    \E p \in Passes :
        /\ HttpFailed(p)
        /\ ~passes[p].others
        /\ passes[p].seen # <<>>
        /\ passes[p].maxReportedAt > passes[p].lastSync

\* C3: the persisted checkpoint never decreases, and the maximum a running
\* call tracks never decreases.
C3_CheckpointMonotone ==
    [][/\ ReadLastSync(lastSyncItem') >= ReadLastSync(lastSyncItem)
       /\ \A p \in Passes :
            (passes[p].pc \notin {"idle", "done", "failed"} /\ passes'[p].pc # "idle")
                => passes'[p].maxReportedAt >= passes[p].maxReportedAt]_vars

\* C4: a call that failed in the HTTP layer (fetch threw, or non-2xx) has
\* emitted the error once, has returned the empty list, and has emitted no
\* match event, also when earlier pages had produced matches.
C4_NetworkFailure ==
    \A p \in Passes :
        HttpFailed(p) =>
            /\ passes[p].errors = 1
            /\ passes[p].returned = <<>>
            /\ passes[p].emitted = <<>>

\* A call failed in the HTTP layer after an earlier page had produced a match.
C4_Witness ==
    \E p \in Passes :
        /\ HttpFailed(p)
        /\ passes[p].allMatches # <<>>
        /\ passes[p].cursor # 0

\* C5: a call emits on 'match' at most once, only after the whole download,
\* with all the matches of the call, and that list is what the call returns.
C5_SingleEmission ==
    \A p \in Passes :
        /\ Len(passes[p].emitted) <= 1
        /\ passes[p].emitted # <<>> =>
              /\ passes[p].pc \in {"cleanup", "done", "failed"}
              /\ passes[p].cursor = 0
              /\ passes[p].emitted[1] = passes[p].allMatches
        /\ (passes[p].emitted # <<>> /\ passes[p].pc \in {"done", "failed"}) =>
              passes[p].returned = passes[p].emitted[1]

Downloaded(p) == passes[p].pc \in {"saving", "cleanup", "done"}

\* No document was added since the server answered the first request of p.
Undisturbed(p) == Cardinality(keys) = passes[p].docs

\* C10: a call whose download ran to the empty next-cursor with no write to
\* the collection meanwhile has received every document with createdAt >=
\* since exactly once, and no other document.
C10_Pagination ==
    \A p \in Passes :
        (Downloaded(p) /\ Undisturbed(p)) =>
            LET seen == passes[p].seen IN
              /\ \A i, j \in 1..Len(seen) : i # j => seen[i] # seen[j]
              /\ {seen[i] : i \in 1..Len(seen)} =
                    {BufferToHex(k.rpi) : k \in {d \in keys : d.createdAt >= passes[p].lastSync}}

\* A download with since > 0 that left an older document out and whose
\* documents filled the first page exactly.
C10_Witness ==
    \E p \in Passes :
        /\ Downloaded(p)
        /\ Undisturbed(p)
        /\ passes[p].lastSync > 0
        /\ Len(passes[p].seen) = PAGE_LIMIT
        /\ Cardinality(keys) > PAGE_LIMIT

\* ---- engine lifecycle ----
\* The engine is INITIALIZING with task p: p holds the init-in-flight slot,
\* has not settled, and no instance is set.
Initializing(p) ==
    /\ p \in 1..Len(tasks)
    /\ initPromise = p
    /\ instance = 0
    /\ TaskRunning(tasks[p])

\* C11: when the initialization holding the slot fails, the step leaves the
\* slot cleared and no instance set (UNINIT); a create() call waiting on a
\* failed initialization is rejected with the error of that initialization,
\* never resolved; and a create() issued in UNINIT starts a new
\* initialization, takes the slot for it and waits on it.
C11_FailureRecovery ==
    [][/\ \A p \in 1..Len(tasks) :
            (Initializing(p) /\ tasks'[p].pc = "rejected") =>
                /\ initPromise' = 0
                /\ instance' = 0
                /\ StartsInit'
       /\ \A c \in Callers :
            ( /\ callers[c].pc = "waiting"
              /\ tasks[callers[c].p].pc = "rejected"
              /\ callers'[c] # callers[c] ) =>
                /\ callers'[c].pc = "rejected"
                /\ callers'[c].p = callers[c].p
       /\ \A c \in Callers :
            ( /\ StartsInit
              /\ callers[c].pc = "idle"
              /\ callers'[c].pc # "idle" ) =>
                /\ Len(tasks') = Len(tasks) + 1
                /\ TaskRunning(tasks'[Len(tasks')])
                /\ initPromise' = Len(tasks')
                /\ callers'[c] = [pc |-> "waiting", p |-> Len(tasks'), got |-> 0]
      ]_vars

\* The first initialization failed with two create() calls waiting on it,
\* both were rejected, and a later create() ran a second initialization
\* that reached READY and resolved. No destroy() was involved.
C11_Witness ==
    /\ destroyCalls = 0
    /\ Len(tasks) = 2
    /\ tasks[1].pc = "rejected"
    /\ tasks[2].pc = "fulfilled"
    /\ instance = 2
    /\ \E c, d, e \in Callers :
         /\ c # d
         /\ callers[c] = [pc |-> "rejected", p |-> 1, got |-> 0]
         /\ callers[d] = [pc |-> "rejected", p |-> 1, got |-> 0]
         /\ callers[e] = [pc |-> "resolved", p |-> 2, got |-> 2]

\* A create() called after the last destroy() (after construction when there
\* was none) has resolved.
CreateResolvedSinceDestroy ==
    \E p \in 1..Len(tasks) : tasks[p].pc = "fulfilled" /\ tasks[p].born = destroyCalls

\* C12: isInitialized() is true exactly when a create() has resolved and no
\* destroy() has returned since; in particular it is false from the return
\* of destroy() until a create() called after it resolves.
C12_InitializedIffReady == isInitialized <=> CreateResolvedSinceDestroy

\* A destroy() call returns in this step.
DestroyStep == destroyCalls' = destroyCalls + 1

MismatchAtOpen ==
    /\ Len(dbLog) >= 1
    /\ dbLog[1].seen # NoKey
    /\ dbLog[1].seen # masterKey

\* No environment fault hit this run's attempts (a first attempt on a file
\* under another key ends at "verify" or "table" without one).
NoDbFault ==
    \A i \in 1..Len(dbLog) :
        /\ dbLog[i].at # "open"
        /\ i >= 2 => dbLog[i].at # "table"

\* Key-mismatch recovery has happened: the failed connection was closed
\* before the file was deleted, a second attempt opened a file that did not
\* exist and succeeded, the file is now under the master secret, one
\* connection is open, and create() did not reject.
Recovered ==
    /\ bootPc # "failed"
    /\ Len(dbLog) = 2
    /\ dbLog[1].openAtDelete = 0
    /\ dbLog[2] = [at |-> "ok", seen |-> NoKey, openAtDelete |-> 0]
    /\ dbFile.exists /\ dbFile.key = masterKey
    /\ bootPc = "ledger" => dbFile.rows = 0
    /\ openHandles = 1

InitializeDatabaseReturned == bootPc \in {"ledger", "ready", "failed"}

\* C14: whenever initializeDatabase has run on a database file encrypted
\* under a different master secret (and the environment did not fail), the
\* failed connection was closed, the file deleted, a fresh empty database
\* opened, and create() goes on to READY without an exception.
C14_KeyMismatchRecovery ==
    (InitializeDatabaseReturned /\ MismatchAtOpen /\ NoDbFault) => Recovered

\* The same for a master secret that is a hex string (one supplied through
\* an application's own KeyStorage).
KeyMismatchRecoveryHexKey ==
    (InitializeDatabaseReturned /\ MismatchAtOpen /\ NoDbFault /\ IsHexKey(masterKey))
        => Recovered

\* A recovery did happen for a hex master secret.
KeyMismatchRecoveryHexKey_Witness ==
    /\ bootPc = "ready" /\ MismatchAtOpen /\ NoDbFault /\ IsHexKey(masterKey) /\ Recovered

\* This is the first run of an installation whose key storage was empty:
\* initialize() generated the master secret and stored it.
FreshInstall == boots = 1 /\ keyWrites = 1 /\ masterKey # NoKey

\* C15: on a fresh installation the generated master secret passes the hex
\* validation of the database layer, and (initializeDatabase reached, no
\* database file present, no environment fault) the first create() opens
\* the database at the first attempt and does not reject.
C15_GeneratedKeyIsHex ==
    FreshInstall =>
        /\ IsHexKey(masterKey)
        /\ (InitializeDatabaseReturned /\ Len(dbLog) >= 1 /\ dbLog[1].seen = NoKey /\ NoDbFault) =>
              /\ bootPc # "failed"
              /\ dbLog = <<[at |-> "ok", seen |-> NoKey, openAtDelete |-> 0]>>

\* C16: setKey is called only when getKey returned no key (null or an empty
\* string); once KeyStorage holds a master secret it keeps that value; and
\* whenever initialize() has succeeded, in this run or a later one, the
\* in-memory master secret is non-empty and equals the value first stored.
C16_InitializeIdempotent ==
    [][/\ keyStore' # keyStore => (NeedsNewKey(keyStore) /\ keyWrites' = keyWrites + 1)
       /\ keyWrites' # keyWrites => NeedsNewKey(keyStore)
       /\ firstStored # NoKey => (firstStored' = firstStored /\ keyStore' = firstStored)
       /\ masterKey' # NoKey =>
            /\ masterKey' = firstStored'
            /\ masterKey' = keyStore'
            /\ Len(masterKey') > 0
      ]_vars

\* The second run of an installation read back the master secret that the
\* first run had generated and stored; setKey was called once in all.
C16_Witness ==
    /\ boots = 2
    /\ keyWrites = 1
    /\ bootPc = "database"
    /\ masterKey \in RandomUUIDs
    /\ masterKey = firstStored

\* ---- binary page ----
\* What the client is to obtain for a document: the RPI in hex, createdAt,
\* and the metadata (absent when null or empty).
ExpectedKey(k) ==
    [rpi |-> BufferToHex(k.rpi), reportedAt |-> k.createdAt,
     metadata |-> IF k.metadata = NoMeta \/ k.metadata = <<>> THEN Undefined ELSE k.metadata]

ExpectedKeys(ks) == [i \in 1..Len(ks) |-> ExpectedKey(ks[i])]

WholePageParsed == codecPc = "parsed" /\ Len(received) = wire.size

\* C17: the encoder writes exactly the bytes it allocated, and decoding the
\* whole buffer yields the encoded records, in order, with an empty
\* metadata absent.
C17_CodecRoundTrip ==
    /\ codecPc # "query" => Len(wire.bytes) = wire.size
    /\ WholePageParsed =>
          /\ ~parsedKeys.threw
          /\ parsedKeys.keys = ExpectedKeys(pageDocs)

\* The same for pages in which no metadata begins with U+FEFF.
NoLeadingBOM == \A i \in 1..Len(pageDocs) : Head(pageDocs[i].metadata) # "BOM"

CodecRoundTripWithoutBOM ==
    /\ codecPc # "query" => Len(wire.bytes) = wire.size
    /\ (WholePageParsed /\ NoLeadingBOM) =>
          /\ ~parsedKeys.threw
          /\ parsedKeys.keys = ExpectedKeys(pageDocs)

\* A metadata that begins with U+FEFF arrives without it, and nothing else
\* of the page differs.
LeadingBOMDropped ==
    WholePageParsed =>
        /\ Len(parsedKeys.keys) = Len(pageDocs)
        /\ \A i \in 1..Len(pageDocs) :
              parsedKeys.keys[i] =
                 IF Head(pageDocs[i].metadata) = "BOM"
                   THEN [ExpectedKey(pageDocs[i]) EXCEPT !.metadata = Tail(pageDocs[i].metadata)]
                   ELSE ExpectedKey(pageDocs[i])

\* The offset at which record j of the encoded page ends.
RECURSIVE EndOffset(_, _)
EndOffset(ks, j) ==
    IF j = 0 THEN COUNT_BYTES ELSE EndOffset(ks, j - 1) + Len(EncodeKey(ks[j]))

\* How many records of the page lie wholly within its first n bytes.
CompleteKeys(ks, n) == Cardinality({j \in 1..Len(ks) : EndOffset(ks, j) <= n})

ServerKeyOf(page, rpi) ==
    page[Max({i \in 1..Len(page) : page[i].rpi = rpi})]

\* The step of a pass that takes a page of keys out of an ok response and
\* processes it (the request, the response and the scan lookup succeeded).
PageProcessed(p) ==
    /\ passes[p].pc = "inflight"
    /\ passes[p].resp[1].status = 200
    /\ passes'[p] # passes[p]
    /\ passes'[p].cause \notin {"http", "store"}

\* C19: a page is processed to its end whatever its metadata: the pass does
\* not fail and reports no error, every stored scan whose RPI is on the page
\* yields a match, with the decrypted metadata when the metadata opens under
\* the scan's key and with undefined when it does not, and the checkpoint
\* candidate still advances to the newest key of the page.
C19_UndecryptableMetadata ==
    [][\A p \in Passes :
         PageProcessed(p) =>
           LET pass == passes[p]
               page == pass.resp[1].keys
               rows == getMatchingScans(scannedEvents, {page[i].rpi : i \in 1..Len(page)})
               after == passes'[p]
               added == SubSeq(after.allMatches, Len(pass.allMatches) + 1,
                               Len(after.allMatches))
           IN /\ after.pc \in {"sent", "saving", "cleanup"}
              /\ after.errors = pass.errors
              /\ after.maxReportedAt = PageMax(pass.maxReportedAt, page)
              /\ SubSeq(after.allMatches, 1, Len(pass.allMatches)) = pass.allMatches
              /\ Len(added) = Len(rows)
              /\ \A i \in 1..Len(rows) :
                   LET key == ServerKeyOf(page, rows[i].rpi) IN
                     /\ added[i].rpi = rows[i].rpi
                     /\ added[i].timestamp = rows[i].timestamp
                     /\ added[i].reportedAt = key.reportedAt
                     /\ added[i].metadata =
                          IF \E x \in Sealed :
                               /\ key.metadata = x.iv \o ":" \o x.tag \o ":" \o x.ct
                               /\ rows[i].metadataKey = x.key
                               /\ x.plain = "{meta}"
                            THEN "meta" ELSE undefined]_vars

\* A pass has returned a match without metadata for a key whose metadata
\* was present and did not open, and has stored the advanced checkpoint.
C19_Witness ==
    \E p \in Passes :
       /\ passes[p].pc = "done"
       /\ passes[p].wrote
       /\ \E i \in 1..Len(passes[p].returned) :
            /\ passes[p].returned[i].metadata = undefined
            /\ \E k \in keys :
                 /\ BufferToHex(k.rpi) = passes[p].returned[i].rpi
                 /\ k.metadata \in {"iv:tag:cx", "iv:tag3:ct3", "iv:ct"}


\* The plaintext JSON of the report in hand is at most 8 KiB.
WithinClientCap == upload.json # NoMetadata /\ upload.json.bytes <= MAX_METADATA_SIZE

\* C20: for metadata whose plaintext JSON is at most 8 KiB, the wire string
\* of _encrypt has at most 10240 characters, and the server's schema does
\* not reject the report.
C20_SizeHeadroom ==
    /\ (upload.pc \in {"posting", "responded"} /\ WithinClientCap)
          => upload.wireLen <= MaxLength
    /\ (upload.pc = "responded" /\ WithinClientCap) => upload.status # 400

\* The headroom the code has: plaintext of at most FittingBytes bytes is
\* sent and is not rejected for its size.
SizeHeadroomUpToFittingBytes ==
    /\ (upload.pc \in {"posting", "responded"} /\ upload.json.bytes <= FittingBytes)
          => upload.wireLen <= MaxLength
    /\ (upload.pc = "responded" /\ upload.json.bytes <= FittingBytes)
          => upload.status # 400

\* A report within the headroom was accepted, and one of no more than
\* 8 KiB was encrypted by the client and rejected by the schema.
SizeHeadroom_Witness ==
    /\ upload.pc = "responded"
    /\ upload.status = 400
    /\ upload.json.units <= MAX_METADATA_SIZE
    /\ upload.json.bytes <= MAX_METADATA_SIZE
    /\ upload.json.bytes > FittingBytes


\* The serialized JSON of the report in hand is longer than 8 KiB.
Oversized == upload.json.bytes > MAX_METADATA_SIZE

\* C21: a report() whose serialized metadata exceeds 8 KiB sends no request
\* and ends in an error for the caller.
C21_OversizedMetadata ==
    (upload.pc # "idle" /\ Oversized) =>
       /\ upload.posts = 0
       /\ upload.pc = "returned"
       /\ upload.result = "false"
       /\ upload.cause = "encrypt"

\* What the code does: the cap counts UTF-16 code units, and a text longer
\* than that sends no request, returns false and emits one error.
OversizedByLength ==
    (upload.pc # "idle" /\ upload.json.units > MAX_METADATA_SIZE) =>
       /\ upload.posts = 0
       /\ upload.pc = "returned"
       /\ upload.result = "false"
       /\ upload.errors = 1
       /\ upload.cause = "encrypt"

OversizedByLength_Witness ==
    upload.pc = "returned" /\ upload.json.units > MAX_METADATA_SIZE /\ upload.errors = 1

\* C22: report() returns true exactly when its one POST was answered with a
\* 2xx status; a failed fetch and any other status give false; the call
\* never throws; and an error caught on the way is emitted once.
C22_ReportResult ==
    /\ upload.posts <= 1
    /\ upload.pc = "returned" =>
         /\ upload.result \in {"true", "false"}
         /\ upload.result = "true" <=>
              (upload.posts = 1 /\ upload.status \in 200..299)
         /\ upload.cause = "network" => (upload.result = "false" /\ upload.errors = 1)
         /\ upload.errors = (IF upload.cause = "none" THEN 0 ELSE 1)

\* A report answered 204 returned true, or one answered without success
\* (a redirect not followed) returned false.
C22_Witness ==
    /\ upload.pc = "returned"
    /\ upload.posts = 1
    /\ \/ upload.status = 204 /\ upload.result = "true"
       \/ upload.status = 300 /\ upload.result = "false" /\ upload.errors = 0


\* Everything an observer of the last request reads off it.
Exposed ==
    outbox.line.shows
      \cup UNION {outbox.headers[i].shows : i \in 1..Len(outbox.headers)}
      \cup UNION {outbox.body[i].rpi.shows \cup outbox.body[i].encryptedMetadata.shows :
                    i \in 1..Len(outbox.body)}

\* The master secret, the metadata keys of the reporter's RPIs, and the
\* plaintext metadata.
KeyMaterial ==
    {MasterSecret.text}
      \cup {getMetadataKey(generateRPI(i)).text : i \in 0..(MaxHistory - 1)}
      \cup {Metadata.text}

\* C23: no request on the wire shows the master secret, a metadata key or
\* plaintext metadata; a report body carries RPIs of the reporter, each with
\* a ciphertext or the empty string.
C23_NoKeyMaterialOnWire ==
    /\ Exposed \cap KeyMaterial = {}
    /\ \A i \in 1..Len(outbox.body) :
         /\ outbox.body[i].rpi = generateRPI(i - 1)
         /\ \E jsonStr \in JsonStrings \cup {NoMetadata} :
              outbox.body[i].encryptedMetadata =
                 encrypt(jsonStr, getMetadataKey(generateRPI(i - 1)))

\* A report with metadata for two RPIs is on the wire.
C23_Witness ==
    /\ Len(outbox.body) = 2
    /\ outbox.body[2].encryptedMetadata # Plain("")
    /\ upload.pc = "posting"


\* C24: every stored contact row has an RPI that is a hex string of the
\* length of an RPI and a metadata key that is a hex string of the length
\* of a key.
C24_ContactRowShape ==
    \A i \in 1..Len(scannedEvents) :
       /\ HexLength(scannedEvents[i].rpi) = RPI_HEX
       /\ HexLength(scannedEvents[i].metadataKey) = KEY_HEX

\* The rows stored from payloads that getQRCode() produced do have that
\* shape.
ContactRowShapeOfGenuineQR ==
    \A i \in 1..Len(scannedEvents) :
       (scannedEvents[i].rpi \in Rpis /\ scannedEvents[i].metadataKey = "c0de")
          => /\ HexLength(scannedEvents[i].rpi) = RPI_HEX
             /\ HexLength(scannedEvents[i].metadataKey) = KEY_HEX

\* The db.insert of a scan call has resolved: its row went into the table.
InsertedByCall(s) == scans[s].pc \in {"persisting", "persistFailing"}

\* The call returns in this step.
ScanReturns(s) == scans[s].pc # "idle" /\ scans'[s].pc = "idle"

\* A scanQR call gets past its checks only with a payload of five fields
\* starting proto, v1, minted no longer ago than rpiDurationMs, of an RPI
\* that canScan admits.
AcceptedOnlyWhenValid(s) ==
    (scans[s].pc = "idle" /\ scans'[s].pc = "inserting") =>
       \E qr \in QRInputs(now) \cup ForgedQRs(now) :
          /\ Len(qr) = 5 /\ qr[1] = "proto" /\ qr[2] = "v1"
          /\ parseQR(qr).ok
          /\ scans'[s].rpi = qr[3] /\ scans'[s].key = qr[5]
          /\ now - parseQR(qr).timestamp <= RpiDurationMs
          /\ canScan(qr[3])

\* C25: scanQR stores a row and returns true only for a valid, fresh payload
\* of an RPI that may be scanned; every other call, one that met a storage
\* error included, returns false and has stored nothing.
C25_ScanQROutcome ==
    [][\A s \in Scanners :
         /\ AcceptedOnlyWhenValid(s)
         /\ Len(scannedEvents') > Len(scannedEvents) =>
              \E c \in Scanners : scans[c].pc = "inserting" /\ InsertedByCall(c)'
         /\ (ScanReturns(s) /\ scanResult' = "true") => InsertedByCall(s)
         /\ (ScanReturns(s) /\ scanResult' # "true") =>
              (scanResult' \in {"false", "error"} /\ ~InsertedByCall(s))]_vars

\* What holds of the code: true is returned only by a call that passed the
\* checks and stored its row, and a call that did not pass them or whose
\* insert failed has stored nothing.
ScanQRTrueOnlyWhenStored ==
    [][\A s \in Scanners :
         /\ AcceptedOnlyWhenValid(s)
         /\ (ScanReturns(s) /\ scanResult' = "true") => InsertedByCall(s)
         /\ (scans[s].pc = "inserting" /\ scans'[s].pc = "idle")
              => (UNCHANGED scannedEvents /\ scanResult' = "error")
         /\ Len(scannedEvents') > Len(scannedEvents) =>
              \E c \in Scanners : scans[c].pc = "inserting" /\ InsertedByCall(c)']_vars

\* C26: a logScan that fails leaves the in-memory ledger as it was: no step
\* of a call whose insert or whose mirror write fails changes it.
C26_FailedLogScanKeepsLedger ==
    [][\A s \in Scanners :
         (/\ scans[s].pc \in {"inserting", "persistFailing"}
          /\ scans'[s].pc \in {"persistFailing", "idle"}
          /\ scans'[s].pc # scans[s].pc)
            => lastScanByRpi' = lastScanByRpi]_vars

\* What holds of the code: a failed insert leaves the ledger as it was.
FailedInsertKeepsLedger ==
    [][\A s \in Scanners :
         (scans[s].pc = "inserting" /\ scans'[s].pc = "idle")
            => (lastScanByRpi' = lastScanByRpi /\ scanHistory' = scanHistory)]_vars


\* The step in which the insert of a logScan call resolves and the call
\* stamps and prunes the ledger.
LogScanStamps(s) ==
    scans[s].pc = "inserting" /\ scans'[s].pc \in {"persisting", "persistFailing"}

\* C27: the in-memory ledger never holds more than MAX_SCAN_HISTORY_SIZE
\* entries, and a logScan drops entries only on overflow, only as many as
\* exceed the bound, and none that is newer than one it keeps.
C27_LedgerBound ==
    /\ [](Len(lastScanByRpi) <= MAX_SCAN_HISTORY_SIZE)
    /\ [][\A s \in Scanners :
            LogScanStamps(s) =>
              LET set == LedgerSet(lastScanByRpi, scans[s].rpi, now)
                  kept == LedgerKeys(lastScanByRpi')
                  evicted == LedgerKeys(set) \ kept
              IN /\ kept \subseteq LedgerKeys(set)
                 /\ Len(lastScanByRpi') = Cardinality(kept)
                 /\ Cardinality(evicted) =
                      (IF Len(set) > MAX_SCAN_HISTORY_SIZE
                         THEN Len(set) - MAX_SCAN_HISTORY_SIZE ELSE 0)
                 /\ \A k \in kept : LedgerGet(lastScanByRpi', k) = LedgerGet(set, k)
                 /\ \A e \in evicted, k \in kept :
                      LedgerGet(set, e) <= LedgerGet(set, k)]_vars

\* A logScan of a second RPI has evicted the entry of the first on
\* overflow: the first has a row young enough that cleanupOldScans would
\* have kept its entry, and the ledger holds only the newer one.
C27_Witness ==
    /\ rescanIntervalMs > 0
    /\ Len(lastScanByRpi) = MAX_SCAN_HISTORY_SIZE
    /\ \E i, j \in 1..Len(scannedEvents) :
         /\ i < j
         /\ scannedEvents[i].rpi # scannedEvents[j].rpi
         /\ scannedEvents[i].timestamp < scannedEvents[j].timestamp
         /\ now - scannedEvents[i].timestamp <= rescanIntervalMs
         /\ LedgerGet(lastScanByRpi, scannedEvents[i].rpi) = 0
         /\ LedgerGet(lastScanByRpi, scannedEvents[j].rpi) >= scannedEvents[j].timestamp


\* C28: a report body that violates the schema in any entry is answered 400
\* as a whole and changes nothing: not the collection, not the pending
\* writes; no row is ever stored for the well-formed entry that came only
\* in such bodies.
C28_SchemaRejectsWhole ==
    /\ [](RowsOf(RpiNames[2]) = {})
    /\ [][reply'.route = ReportRoute /\ reply'.status = 400 =>
            ~reply'.ran /\ UNCHANGED <<keys, reqs, firstInsert>>]_vars

\* With rows of accepted reports in the collection, a report with the
\* right secret has just been answered 400.
C28_Witness ==
    /\ reply.route = ReportRoute
    /\ reply.secretOk
    /\ reply.status = 400
    /\ keys # {}
    /\ RowsOf(RpiNames[2]) = {}


C30_UnpairRemovesRecord ==
    [][\A d \in Devices : UnpairUser(d) =>
          /\ ~nearbyUsers'[d].paired
          /\ ~nearbyUsers'[d].hasIncomingRequest
          /\ pendingRequests'[d] = NoPending
          /\ \A i \in 1..Len(scannedEvents') :
                scannedEvents'[i].rpi # nearbyUsers[d].fullRpi]_vars

\* What does hold: unpairUser resets the status and drops the request, and
\* does not touch the table.
UnpairResetsStatus ==
    [][\A d \in Devices : UnpairUser(d) =>
          /\ ~nearbyUsers'[d].paired
          /\ ~nearbyUsers'[d].hasIncomingRequest
          /\ pendingRequests'[d] = NoPending
          /\ UNCHANGED scannedEvents]_vars


C32_PassTerminates ==
    /\ (passes[1].pc = "sent") ~> (passes[1].pc = "done")
    /\ [][passes[1].pc = "sent" /\ passes'[1].pc = "inflight" =>
            /\ passes'[1].resp[1].status = 200
            /\ passes'[1].resp[1].keys =
                 WireKeys(FindPage(keys, ToNumeral(passes[1].lastSync), passes[1].cursor))
            /\ passes[1].lastSync = ReadLastSync(lastSyncItem) \/ passes[1].cursor # 0]_vars
    /\ [][passes[1].pc = "inflight" /\ passes'[1].pc # "inflight" =>
            /\ passes'[1].lastSync = passes[1].lastSync
            /\ passes'[1].cursor = passes[1].resp[1].next
            /\ passes'[1].pc = "sent" <=> passes[1].resp[1].next # 0
            /\ passes'[1].pc = "sent" => passes'[1].cursor > passes[1].cursor]_vars

\* A pass that took more than one page has ended.
C32_Witness ==
    /\ passes[1].pc = "done"
    /\ Len(passes[1].seen) > PAGE_LIMIT
    /\ passes[1].errors = 0

\* No scanQR/logScan and no cleanupOldScans call is between its first await
\* and its return.
StoreAtRest == (\A s \in Scanners : scans[s].pc = "idle") /\ cleanup.pc = "idle"

\* C33: whenever no store operation is in flight, the durable mirror of the
\* rescan ledger (AsyncStorage SCAN_HISTORY_KEY) equals the in-memory ledger,
\* so that canScan answers after initialize() reloaded the mirror as it
\* answered before, for every RPI.
C33_MirrorEqualsLedger ==
    StoreAtRest =>
        /\ scanHistory = lastScanByRpi
        /\ \A r \in Rpis :
              canScanAt(scanHistory, rescanIntervalMs, r, now)
                  <=> canScanAt(lastScanByRpi, rescanIntervalMs, r, now)

\* What holds of the code: the mirror leaves the ledger only in a step whose
\* AsyncStorage.setItem rejects.
MirrorFollowsLedgerUnlessWriteRejects ==
    [][/\ scanHistory = lastScanByRpi
       /\ \A s \in Scanners : scans'[s].pc # "persistFailing"
       /\ cleanup'.pc # "persistFailing"
       => scanHistory' = lastScanByRpi']_vars

\* The number of rows of the table equal to row.
CountRow(table, row) == Cardinality({i \in 1..Len(table) : table[i] = row})

\* C34: cleanupOldScans removes exactly the contact rows with timestamp <
\* now - 14 days (now as read when it was called) and, when rescanIntervalMs
\* > 0, exactly the ledger entries older than rescanIntervalMs; every other
\* row and entry stays as it was, and no entry that still blocks a rescan is
\* removed.
C34_CleanupRemovesExactlyOld ==
    /\ [][cleanup.pc = "idle" /\ cleanup'.pc = "deleting"
            => /\ cleanup'.cutoff = now - RETENTION_MS
               /\ UNCHANGED <<scannedEvents, lastScanByRpi>>]_vars
    /\ [][(\E landed \in BOOLEAN : CleanupDeleted(landed)) =>
            /\ \A i \in 1..Len(scannedEvents') :
                  \E j \in 1..Len(scannedEvents) : scannedEvents'[i] = scannedEvents[j]
            /\ \A j \in 1..Len(scannedEvents) :
                  CountRow(scannedEvents', scannedEvents[j]) =
                      IF scannedEvents[j].timestamp < cleanup.cutoff
                        THEN 0 ELSE CountRow(scannedEvents, scannedEvents[j])
            /\ IF rescanIntervalMs > 0
                 THEN \A r \in Rpis :
                        LedgerGet(lastScanByRpi', r) =
                            IF now - LedgerGet(lastScanByRpi, r) > rescanIntervalMs
                              THEN 0 ELSE LedgerGet(lastScanByRpi, r)
                 ELSE lastScanByRpi' = lastScanByRpi
            /\ \A r \in Rpis :
                  ~canScanAt(lastScanByRpi, rescanIntervalMs, r, now)
                      => LedgerGet(lastScanByRpi', r) = LedgerGet(lastScanByRpi, r)]_vars

\* cleanupOldScans has just deleted the one stored row and pruned the one
\* ledger entry, both older than their limits.
C34_Witness ==
    /\ cleanup.pc = "persisting"
    /\ rescanIntervalMs > 0
    /\ scannedEvents = <<>>
    /\ lastScanByRpi = <<>>
    /\ \E r \in Rpis : stamped[r] # 0 /\ now - stamped[r] > rescanIntervalMs

\* C35: the database handle is closed on every exit path of
\* initializeDatabase: after it returned exactly one connection (the
\* returned one) is open, after it threw none is, and when the first attempt
\* failed its connection was closed before deleteDatabaseSync ran.
C35_HandleClosedOnEveryExit ==
    /\ bootPc \in {"ledger", "ready"} => openHandles = 1
    /\ bootPc \in {"retry", "failed"} => openHandles = 0
    /\ \A i \in 1..Len(dbLog) : dbLog[i].openAtDelete = 0

\* initializeDatabase threw after two attempts that each opened a
\* connection: the first met a file under another key, the second failed
\* creating the schema.
C35_Witness ==
    /\ bootPc = "failed"
    /\ Len(dbLog) = 2
    /\ dbLog[1].at \in {"verify", "table"} /\ dbLog[1].seen # NoKey
    /\ dbLog[2].at = "table"
    /\ openHandles = 0

\* C39: initializeDatabase deletes the database file only when the
\* key-verification query failed: a failure at any other step (opening the
\* file, the key format, creating the table or the index) never deletes an
\* existing database that is readable under the given master secret.
C39_DeleteOnlyOnKeyMismatch ==
    [][(bootPc \in {"database", "retry"} /\ dbFile.exists /\ dbFile.key = masterKey)
          => (dbFile'.exists /\ dbFile' = dbFile)]_vars

\* What holds of the code: the file is deleted only after a failed first
\* attempt, whatever made it fail.
DeleteOnlyAfterFailedAttempt ==
    [][dbFile.exists /\ ~dbFile'.exists
          => /\ bootPc = "database" /\ bootPc' \in {"retry", "failed"}
             /\ dbLog'[Len(dbLog')].at # "ok"]_vars

\* The initializations that are running doCreate past its validation.
InProgress == {p \in 1..Len(tasks) : tasks[p].pc \in {"identity", "database", "ledger", "cleanup"}}

\* C36: for every interleaving of create() and destroy() calls, a destroy()
\* during an initialization included, at most one initialization is in
\* progress at any time, and at most one engine is handed out between two
\* consecutive destroy() calls (an engine is handed out when its
\* initialization fulfils the promise create() returned; only destroy()
\* takes the engine set as the instance away again).
C36_OneInitOneEngine ==
    /\ [](Cardinality(InProgress) <= 1)
    /\ [][(instance # 0 /\ instance' # 0) => instance' = instance]_vars

\* What holds of the code: as long as destroy() was not called, one
\* initialization at a time and one engine.
OneInitOneEngineBeforeDestroy ==
    /\ [](destroyCalls = 0 => Cardinality(InProgress) <= 1)
    /\ [][(destroyCalls' = 0 /\ instance # 0) => instance' = instance]_vars

\* C37: whenever fetchAndMatch ends in failure (it emitted 'error' and
\* returns an empty list), the call has not written the checkpoint and has
\* emitted no 'match' event, whatever step failed, the checkpoint write and
\* the final cleanupOldScans included.
C37_FailureLeavesNoTrace ==
    \A p \in Passes :
        passes[p].pc = "failed" =>
            /\ passes[p].returned = <<>>
            /\ passes[p].errors = 1
            /\ ~passes[p].wrote
            /\ passes[p].emitted = <<>>

\* What holds of the code: a failure at any step before cleanupOldScans
\* (a request, the parsing and matching of a page, the checkpoint write)
\* leaves the checkpoint unwritten and 'match' unemitted.
FailureBeforeCleanupLeavesNoTrace ==
    [][\A p \in Passes :
          (passes'[p].pc = "failed" /\ passes[p].pc \notin {"failed", "cleanup"})
              => (~passes'[p].wrote /\ passes'[p].emitted = <<>> /\ UNCHANGED lastSyncItem)]_vars

\* The rows of the server that the call p has decoded and looked up in the
\* contact log (every RPI is reported once).
Intersected(p) == {k \in keys : \E i \in 1..Len(passes[p].seen) : passes[p].seen[i] = BufferToHex(k.rpi)}

\* C38: no reported identifier is skipped: when a pass has advanced the
\* checkpoint from C0 to C1, every row the server held at the start of the
\* pass with C0 <= createdAt < C1 was decoded and intersected with the
\* contact log during that pass, also when a page arrived truncated.
C38_NoRowSkipped ==
    \A p \in Passes :
        passes[p].wrote =>
            \A k \in keys :
                (passes[p].lastSync <= k.createdAt /\ k.createdAt < passes[p].maxReportedAt)
                    => k \in Intersected(p)

\* What holds of the code: the same when every page arrives whole.
NoRowSkippedOnWholePages ==
    \A p \in Passes :
        (passes[p].wrote /\ Undisturbed(p)) =>
            {k \in keys : passes[p].lastSync <= k.createdAt} \subseteq Intersected(p)

\* C40: for every configuration create() accepts and every report() call,
\* overrideReportDays included, the batch has at most 1500 entries (days *
\* epochs per day <= 1500), so that no report is rejected by the batch-size
\* limit of the server.
C40_BatchWithinLimit ==
    /\ batch.pc # "idle" => batch.length <= maxItems
    /\ batch.pc \in {"responded", "returned"} => batch.status # 400

\* What holds of the code: with the default 15-minute epoch a report of up
\* to the default 14 days fits (1344 entries), and with a 24-hour epoch
\* every report of the days considered.
BatchWithinLimitForDefaults ==
    (/\ batch.pc # "idle"
     /\ \/ batch.epochMs = DEFAULT_EPOCH_MS /\ batch.days <= DEFAULT_REPORT_DAYS
        \/ batch.epochMs = DAY_MS)
        => /\ batch.length <= maxItems
           /\ batch.pc \in {"responded", "returned"} => batch.status = 200

==============================================================================
